---- MODULE Spec2Model ----
(***************************************************************************)
(* Model of the QueryHub ingestion pipeline (backend/worker.py), its       *)
(* chunker (backend/utils.py) and the retrieval engine with its            *)
(* collection manager (backend/routes.py).                                 *)
(*                                                                         *)
(* Strings are sequences of one-character strings.  The relational store,  *)
(* the vector service, the embedding model and the blob store are external *)
(* collaborators: every call to one of them either returns or raises, and  *)
(* the choice is nondeterministic.  A commit that raises persists nothing. *)
(***************************************************************************)
EXTENDS Integers, Sequences, FiniteSets, TLC

\* ------------------------------------------------------------------ bounds
\* longest text handed to a single detailed ingestion run
MaxTextLen == 12
\* texts up to this length range over the whole alphabet (blanks included)
MaxMixedLen == 3
\* most chunks whose embedding may fail in one run
MaxEmbedFailures == 1
\* retrieve calls issued in the system specification
MaxRetrieves == 1
\* longest text handed to a run of the system specification
MaxSystemTextLen == 1
\* points held by the collection of the retrieval specification
MaxPoints == 5
\* delete requests of the deletion specification
MaxDeletes == 2
\* points held by the collection of the ask specification
MaxAskPoints == 2
\* length of the texts, and the sizes and overlaps, of the chunker specification
MaxChunkerLen == 4
MaxChunkSize == 3

\* --------------------------------------------------------- program constants
\* config.py:33-34, CHUNK_SIZE / CHUNK_OVERLAP are read from the environment
\* (defaults 2000 / 200); the model runs the deployment CHUNK_SIZE=2,
\* CHUNK_OVERLAP=1 so that a 12-character text already yields 12 windows.
CHUNK_SIZE == 2
CHUNK_OVERLAP == 1
\* worker.py:87 and routes.py:177
max_retries == 3
\* worker.py:83 / routes.py:175: dimension of the embedding model's vectors
VectorDim == 384
\* routes.py:459: the ask handler retrieves with k=4
AskK == 4
\* routes.py:239 and routes.py:245
FingerprintLen == 200
TruncateLen == 1000

Runs == {"r1", "r2"}
Docs == {"d1", "d2"}
Retriever == "q"
Callers == Runs \cup {Retriever}
Whitespace == {" ", "\t", "\n"}

None == "None"
\* the local variable `job` before line 29 has assigned it
NoJob == [status |-> None, progress |-> 0, error |-> None]
\* no Job row persisted
NoRow == [document_id |-> None, status |-> "NoRow", progress |-> 0, error |-> None,
          created_at |-> 0]
\* a collection the vector service does not hold
Absent == [exists |-> FALSE, points |-> {}]
\* a collection holding the points P
Present(P) == [exists |-> TRUE, points |-> P]
\* nothing returned yet by retrieve_top_k
NoResult == [outcome |-> None, contexts |-> <<>>]
\* chunk_text has not been called
NoCall == [pc |-> "idle", text |-> <<>>, chunk_size |-> 0, overlap |-> 0, start |-> 0,
           chunks |-> <<>>, windows |-> <<>>, result |-> <<>>]
\* no upload request has been served
NoUpload == [status_code |-> 0, status |-> None, document_id |-> None,
             public_url |-> None, detail |-> None]
\* routes.py:142-152, the reply of a successful upload
Uploaded(d, url) == [status_code |-> 200, status |-> "processing",
                     document_id |-> d, public_url |-> url, detail |-> None]
\* routes.py:118 and 158, the HTTPException of an upload; its detail names
\* the call that raised
UploadError(code, detail) == [status_code |-> code, status |-> None,
                              document_id |-> None, public_url |-> None,
                              detail |-> detail]
\* no status handler has replied yet
NoReply == [handler |-> None, statuses |-> [d \in Docs |-> None]]

Min(a, b) == IF a < b THEN a ELSE b

RECURSIVE Rep(_, _)
Rep(c, n) == IF n = 0 THEN <<>> ELSE <<c>> \o Rep(c, n - 1)

RECURSIVE StringsUpTo(_, _)
StringsUpTo(alphabet, n) ==
    IF n = 0 THEN {<<>>}
    ELSE LET shorter == StringsUpTo(alphabet, n - 1)
         IN  shorter \cup {s \o <<c>> : s \in shorter, c \in alphabet}

\* ----------------------------------------------------------------- chunker
RECURSIVE LStrip(_)
LStrip(s) == IF s # <<>> /\ Head(s) \in Whitespace THEN LStrip(Tail(s)) ELSE s

RECURSIVE RStrip(_)
RStrip(s) ==
    IF s # <<>> /\ s[Len(s)] \in Whitespace
    THEN RStrip(SubSeq(s, 1, Len(s) - 1)) ELSE s

\* str.strip()
Strip(s) == RStrip(LStrip(s))

\* text[start:end] with 0 <= start
Slice(text, start, end) == SubSeq(text, start + 1, Min(end, Len(text)))

\* the while loop of chunk_text: the list `chunks` before the final filter
RECURSIVE ChunkLoop(_, _, _, _)
ChunkLoop(text, chunk_size, overlap, start) ==
    IF start < Len(text)
    THEN LET end  == start + chunk_size
             next == IF end - overlap < 0 THEN 0 ELSE end - overlap
         IN  <<Strip(Slice(text, start, end))>>
                 \o ChunkLoop(text, chunk_size, overlap, next)
    ELSE <<>>

\* the list before the filter of utils.py:43
chunk_textUnfiltered(text, chunk_size, overlap) ==
    ChunkLoop(text, chunk_size, overlap, 0)

\* [c for c in chunks if c]
chunk_text(text, chunk_size, overlap) ==
    SelectSeq(ChunkLoop(text, chunk_size, overlap, 0), LAMBDA c : c # <<>>)

\* ------------------------------------------------------------------- state
VARIABLES
    pc,           \* [Runs -> position of the run in process_document]
    document_id,  \* [Runs -> Docs], first argument of process_document
    fileText,     \* [Runs -> text held by the file at local_path]
    tmpFile,      \* [Runs -> "absent" | "present" | "removed"], the file at local_path
    removeCalls,  \* [Runs -> number of os.remove(local_path) calls made]
    job,          \* [Runs -> NoJob | in-memory Job object of the run's session]
    jobRows,      \* [Runs -> NoRow | the persisted Job row created by the run]
    jobWrites,    \* [Runs -> every committed version of that row, in order]
    chunks,       \* [Runs -> the list returned by chunk_text]
    idx,          \* [Runs -> loop index of `for idx, c in enumerate(chunks)`]
    chunkRows,    \* [Runs -> persisted Chunk rows written by the run, in order]
    embRows,      \* [Runs -> chunk ids of the persisted Embedding rows]
    to_upsert,    \* [Runs -> staged points]
    encodeCalls,  \* [Runs -> chunk indexes model.encode was called for]
    encodeFailed, \* [Runs -> chunk indexes whose model.encode raised]
    upsertCalls,  \* [Runs -> the upsert calls made: collection and batch]
    archiveCalls, \* [Runs -> number of upload_file_to_supabase calls made]
    exc,          \* [Runs -> None | str(e) of the exception caught at line 147]
    failures,     \* [Runs -> kinds of the calls that raised during the run]
    attempt,      \* [Callers -> loop variable of the ensure loop]
    ensureLog,    \* [Callers -> calls of the current/last ensure, with replies]
    ensureState,  \* [Callers -> "idle" | "running" | "ok" | "failed"]
    collections,  \* [Docs -> Absent | Present(points)], the vector service
    rpc,          \* position of the retrieve call in retrieve_top_k
    rdoc,         \* document_id argument of the retrieve call (None if absent)
    rk,           \* argument k of the retrieve call
    rresult,      \* outcome of the last retrieve call, NoResult before
    rleft,        \* number of retrieve calls the query handler will still make
    rhits,        \* hits the search of the current/last retrieve call returned
    statusReply,  \* last reply of a status handler, NoReply before
    documents,    \* ids of the rows of the Document table
    deleteLog,    \* the delete_document requests served, with the calls each made
    askLog,       \* the replies of ask_question, with the completion calls made
    ck,           \* activation record of a chunk_text call
    uploadReply,  \* [Runs -> NoUpload | reply of the upload that made the file]
    faults        \* kinds of calls the collaborators may fail in this world

runVars == <<pc, document_id, fileText, tmpFile, removeCalls, job, chunks, idx,
             to_upsert, encodeCalls, encodeFailed, upsertCalls, archiveCalls,
             exc, failures>>
dbVars == <<jobRows, jobWrites, chunkRows, embRows>>
ensureVars == <<attempt, ensureLog, ensureState>>
retrieveVars == <<rpc, rdoc, rk, rresult, rleft, rhits>>
otherVars == <<documents, deleteLog, askLog, ck, uploadReply>>
vars == <<runVars, dbVars, ensureVars, collections, retrieveVars, statusReply,
          otherVars, faults>>

\* the calls that can raise, by kind: SessionLocal(), a commit or refresh in
\* the try block, extract_text_from_file, get_embedding_model, model.encode of
\* a chunk, a vector-service call, the blob upload, a commit or refresh in the
\* except block, db.close(), os.remove, model.encode of a query; and the
\* database clock giving an insert the instant of an earlier insert, the
\* deletion of a blob, the request to the completion service, the write of
\* the uploaded bytes to the temporary file
FaultKinds == {"session", "db", "extract", "model", "embed", "index", "archive",
               "handler", "close", "remove", "query", "clock", "blob",
               "completion", "write"}
\* the faults of the system specification
SystemFaults == {"index", "extract"}

\* routes.py:170-172 and worker.py:80
get_document_collection_name(d) == <<"doc-", d>>

\* texts of the detailed single-run specification
PipelineTexts ==
    StringsUpTo({"a", " "}, MaxMixedLen) \cup {Rep("a", n) : n \in 0..MaxTextLen}

InitState(started, docOf, textOf, mayFail, queries, stored) ==
    /\ faults = mayFail
    /\ pc = [r \in Runs |-> IF r \in started THEN "start" ELSE "idle"]
    /\ document_id = docOf
    /\ fileText = textOf
    /\ tmpFile = [r \in Runs |-> "present"]
    /\ uploadReply = [r \in Runs |-> IF r \in started THEN Uploaded(docOf[r], "url")
                                                     ELSE NoUpload]
    /\ removeCalls = [r \in Runs |-> 0]
    /\ job = [r \in Runs |-> NoJob]
    /\ jobRows = [r \in Runs |-> NoRow]
    /\ jobWrites = [r \in Runs |-> <<>>]
    /\ chunks = [r \in Runs |-> <<>>]
    /\ idx = [r \in Runs |-> 0]
    /\ chunkRows = [r \in Runs |-> <<>>]
    /\ embRows = [r \in Runs |-> <<>>]
    /\ to_upsert = [r \in Runs |-> <<>>]
    /\ encodeCalls = [r \in Runs |-> <<>>]
    /\ encodeFailed = [r \in Runs |-> {}]
    /\ upsertCalls = [r \in Runs |-> <<>>]
    /\ archiveCalls = [r \in Runs |-> 0]
    /\ exc = [r \in Runs |-> None]
    /\ failures = [r \in Runs |-> {}]
    /\ attempt = [c \in Callers |-> 0]
    /\ ensureLog = [c \in Callers |-> <<>>]
    /\ ensureState = [c \in Callers |-> "idle"]
    /\ collections = stored
    /\ rpc = "idle"
    /\ rdoc = None
    /\ rk = AskK
    /\ rresult = NoResult
    /\ rleft = queries
    /\ rhits = <<>>
    /\ statusReply = NoReply
    /\ documents = Docs
    /\ deleteLog = <<>>
    /\ askLog = <<>>
    /\ ck = NoCall

\* the vector service holding no collection
NoCollections == [d \in Docs |-> Absent]

\* one upload: start_indexing_thread(doc.id, tmp_path) has started run r1
Init ==
    \E t \in PipelineTexts :
        InitState({"r1"}, [r \in Runs |-> "d1"],
                  [r \in Runs |-> IF r = "r1" THEN t ELSE <<>>], FaultKinds, 0,
                  NoCollections)

\* ------------------------------------------------- process_document, by step
Goto(r, label) == pc' = [pc EXCEPT ![r] = label]
Failed(r, kind) == failures' = [failures EXCEPT ![r] = @ \cup {kind}]

\* a call of this kind may raise
MayFail(kind) == kind \in faults

\* an exception that is logged and passed over, the run going on to the blob
\* upload
ExceptContinues(r, kind, msg, j) ==
    /\ MayFail(kind)
    /\ Failed(r, kind)
    /\ exc' = [exc EXCEPT ![r] = msg]
    /\ Goto(r, "archive")

\* models.py:21, 30 and 39: the rows of a run refer to the Document row of its
\* document, which exists; once it is deleted they are gone with it, and an
\* insert, update or refresh of such a row raises
Stored(r) == document_id[r] \in documents

\* worker.py:147-151: an exception reaches `except Exception as e`
\* with j the value of the local variable `job`
Except(r, kind, msg, j) ==
    /\ MayFail(kind) \/ (kind = "db" /\ ~Stored(r))
    /\ Failed(r, kind)
    /\ exc' = [exc EXCEPT ![r] = msg]
    /\ Goto(r, IF j # NoJob THEN "except_refresh" ELSE "close")

\* the greatest created_at of the Job table, 0 for the empty table
LatestCreatedAt ==
    CHOOSE t \in {jobRows[r].created_at : r \in Runs} :
        \A r \in Runs : jobRows[r].created_at <= t

\* models.py:43, server_default=func.now(): the instant an INSERT into jobs
\* gets; the clock never runs backwards, and two inserts can get one instant
Now ==
    IF MayFail("clock") /\ LatestCreatedAt > 0
    THEN {LatestCreatedAt, LatestCreatedAt + 1}
    ELSE {LatestCreatedAt + 1}

\* a commit that writes every persisted Job row of the run's document
CommitJobByDocument(r, j) ==
    \E at \in (IF jobRows[r] = NoRow THEN Now ELSE {jobRows[r].created_at}) :
        LET row == [document_id |-> document_id[r], status |-> j.status,
                    progress |-> j.progress, error |-> j.error, created_at |-> at]
        IN  /\ jobRows' = [x \in Runs |->
                            IF x = r \/ (document_id[x] = document_id[r]
                                            /\ jobRows[x] # NoRow)
                            THEN row ELSE jobRows[x]]
            /\ jobWrites' = [jobWrites EXCEPT ![r] = Append(@, row)]

\* db.add(job); db.commit(): the in-memory Job becomes the persisted row
\* (j is the in-memory object)
CommitJob(r, j) ==
    \E at \in (IF jobRows[r] = NoRow THEN Now ELSE {jobRows[r].created_at}) :
        LET row == [document_id |-> document_id[r], status |-> j.status,
                    progress |-> j.progress, error |-> j.error, created_at |-> at]
        IN  /\ Stored(r)
            /\ jobRows' = [jobRows EXCEPT ![r] = row]
            /\ jobWrites' = [jobWrites EXCEPT ![r] = Append(@, row)]

\* db.refresh(job): the in-memory Job is reloaded from its row
RefreshJob(r) ==
    /\ Stored(r)
    /\ job' = [job EXCEPT ![r] = [status |-> jobRows[r].status,
                                  progress |-> jobRows[r].progress,
                                  error |-> jobRows[r].error]]

\* a loop that leaves out the last chunk
LoopTargetStopsEarly(r, i, staged) ==
    IF i < Len(chunks[r]) - 1
    THEN IF i % 10 = 0 \/ i = Len(chunks[r]) - 1 THEN "progress" ELSE "chunk_commit"
    ELSE IF staged # <<>> THEN "index" ELSE "archive"

\* where the for loop of line 46 goes with index i
LoopTarget(r, i, staged) ==
    IF i < Len(chunks[r])
    THEN IF i % 10 = 0 \/ i = Len(chunks[r]) - 1 THEN "progress" ELSE "chunk_commit"
    ELSE IF staged # <<>> THEN "index" ELSE "archive"

\* line 48: int((idx + 1) / total_chunks * 90); the float product truncates to
\* the integer quotient for every (idx, total_chunks) the loop reaches with
\* total_chunks < 30
Progress(i, total_chunks) == ((i + 1) * 90) \div total_chunks

\* line 29: Job(document_id=document_id, status="processing"); models.py:40-42
\* give progress the default 0 and error the default NULL
NewJob == [status |-> "processing", progress |-> 0, error |-> None]

\* line 26: db = SessionLocal(), outside the try
OpenSession(r) ==
    /\ pc[r] = "start"
    /\ \/ Goto(r, "create_job") /\ UNCHANGED failures
       \/ MayFail("session") /\ Goto(r, "raised") /\ Failed(r, "session")
    /\ UNCHANGED <<document_id, fileText, tmpFile, removeCalls, job, chunks, idx,
                   to_upsert, encodeCalls, encodeFailed, upsertCalls,
                   archiveCalls, exc, dbVars, ensureVars, collections, retrieveVars, statusReply, otherVars, faults>>

\* lines 29-31
CreateJob(r) ==
    /\ pc[r] = "create_job"
    /\ job' = [job EXCEPT ![r] = NewJob]
    /\ \/ /\ CommitJob(r, NewJob)
          /\ Goto(r, "refresh_job")
          /\ UNCHANGED <<exc, failures>>
       \/ /\ Except(r, "db", "create_job", NewJob)
          /\ UNCHANGED <<jobRows, jobWrites>>
    /\ UNCHANGED <<document_id, fileText, tmpFile, removeCalls, chunks, idx,
                   to_upsert, encodeCalls, encodeFailed, upsertCalls,
                   archiveCalls, chunkRows, embRows, ensureVars, collections,
                   retrieveVars, statusReply, otherVars, faults>>

\* line 32
RefreshNewJob(r) ==
    /\ pc[r] = "refresh_job"
    /\ \/ RefreshJob(r) /\ Goto(r, "extract") /\ UNCHANGED <<exc, failures>>
       \/ Except(r, "db", "refresh_job", job[r]) /\ UNCHANGED job
    /\ UNCHANGED <<document_id, fileText, tmpFile, removeCalls, chunks, idx,
                   to_upsert, encodeCalls, encodeFailed, upsertCalls,
                   archiveCalls, dbVars, ensureVars, collections, retrieveVars, statusReply, otherVars, faults>>

\* lines 35-36: extract_text_from_file, then chunk_text
ExtractAndChunk(r) ==
    /\ pc[r] = "extract"
    /\ \/ /\ chunks' = [chunks EXCEPT ![r] =
                          chunk_text(fileText[r], CHUNK_SIZE, CHUNK_OVERLAP)]
          /\ Goto(r, "load_model")
          /\ UNCHANGED <<exc, failures>>
       \/ Except(r, "extract", "extract", job[r]) /\ UNCHANGED chunks
    /\ UNCHANGED <<document_id, fileText, tmpFile, removeCalls, job, idx,
                   to_upsert, encodeCalls, encodeFailed, upsertCalls,
                   archiveCalls, dbVars, ensureVars, collections, retrieveVars, statusReply, otherVars, faults>>

\* lines 39-46: get_embedding_model, then the loop is entered
LoadModel(r) ==
    /\ pc[r] = "load_model"
    /\ \/ Goto(r, LoopTarget(r, 0, <<>>)) /\ UNCHANGED <<exc, failures>>
       \/ Except(r, "model", "load_model", job[r])
    /\ UNCHANGED <<document_id, fileText, tmpFile, removeCalls, job, chunks, idx,
                   to_upsert, encodeCalls, encodeFailed, upsertCalls,
                   archiveCalls, dbVars, ensureVars, collections, retrieveVars, statusReply, otherVars, faults>>

\* lines 47-52
WriteProgress(r) ==
    /\ pc[r] = "progress"
    /\ LET j == [job[r] EXCEPT !.progress = Progress(idx[r], Len(chunks[r]))]
       IN  /\ job' = [job EXCEPT ![r] = j]
           /\ \/ /\ CommitJob(r, j)
                 /\ Goto(r, "chunk_commit")
                 /\ UNCHANGED <<exc, failures>>
              \/ /\ Except(r, "db", "progress", j)
                 /\ UNCHANGED <<jobRows, jobWrites>>
    /\ UNCHANGED <<document_id, fileText, tmpFile, removeCalls, chunks, idx,
                   to_upsert, encodeCalls, encodeFailed, upsertCalls,
                   archiveCalls, chunkRows, embRows, ensureVars, collections,
                   retrieveVars, statusReply, otherVars, faults>>

\* an id made of the document and the chunk index
ChunkIdByDocument(r, i) == <<document_id[r], i>>

\* the id the Chunk of (run, index) gets from gen_uuid
ChunkId(r, i) == <<r, i>>

\* a Chunk numbered from one
ChunkRowOneBased(r, i) ==
    [id |-> ChunkId(r, i), document_id |-> document_id[r],
     chunk_index |-> i + 1, text |-> chunks[r][i + 1]]

\* line 54: Chunk(document_id=document_id, chunk_index=idx, text=c)
ChunkRow(r, i) ==
    [id |-> ChunkId(r, i), document_id |-> document_id[r],
     chunk_index |-> i, text |-> chunks[r][i + 1]]

\* lines 54-56
WriteChunk(r) ==
    /\ pc[r] = "chunk_commit"
    /\ \/ /\ Stored(r)
          /\ chunkRows' = [chunkRows EXCEPT ![r] = Append(@, ChunkRow(r, idx[r]))]
          /\ Goto(r, "chunk_refresh")
          /\ UNCHANGED <<exc, failures>>
       \/ Except(r, "db", "chunk_commit", job[r]) /\ UNCHANGED chunkRows
    /\ UNCHANGED <<document_id, fileText, tmpFile, removeCalls, job, chunks, idx,
                   to_upsert, encodeCalls, encodeFailed, upsertCalls,
                   archiveCalls, jobRows, jobWrites, embRows, ensureVars,
                   collections, retrieveVars, statusReply, otherVars, faults>>

\* line 57
RefreshChunk(r) ==
    /\ pc[r] = "chunk_refresh"
    /\ \/ Stored(r) /\ Goto(r, "encode") /\ UNCHANGED <<exc, failures>>
       \/ Except(r, "db", "chunk_refresh", job[r])
    /\ UNCHANGED <<document_id, fileText, tmpFile, removeCalls, job, chunks, idx,
                   to_upsert, encodeCalls, encodeFailed, upsertCalls,
                   archiveCalls, dbVars, ensureVars, collections, retrieveVars, statusReply, otherVars, faults>>

\* a point with an id of its own
PointWithOwnId(r, i) ==
    [id |-> <<"point", i>>, vector |-> [dim |-> VectorDim],
     payload |-> [document_id |-> document_id[r], chunk_index |-> i,
                  chunk_text |-> chunks[r][i + 1]]]

\* the PointStruct of lines 61-65
Point(r, i) ==
    [id |-> ChunkId(r, i), vector |-> [dim |-> VectorDim],
     payload |-> [document_id |-> document_id[r], chunk_index |-> i,
                  chunk_text |-> chunks[r][i + 1]]]

\* lines 59-68 with the handler of line 67 missing: a raising model.encode
\* reaches line 147
EncodeFatal(r) ==
    /\ pc[r] = "encode"
    /\ encodeCalls' = [encodeCalls EXCEPT ![r] = Append(@, idx[r])]
    /\ \/ /\ to_upsert' = [to_upsert EXCEPT ![r] = Append(@, Point(r, idx[r]))]
          /\ Goto(r, "emb_commit")
          /\ UNCHANGED <<encodeFailed, failures, exc>>
       \/ /\ MayFail("embed")
          /\ Cardinality(encodeFailed[r]) < MaxEmbedFailures
          /\ encodeFailed' = [encodeFailed EXCEPT ![r] = @ \cup {idx[r]}]
          /\ Except(r, "embed", "encode", job[r])
          /\ UNCHANGED to_upsert
    /\ UNCHANGED <<document_id, fileText, tmpFile, removeCalls, job, chunks, idx,
                   upsertCalls, archiveCalls, dbVars, ensureVars,
                   collections, retrieveVars, statusReply, otherVars, faults>>

\* lines 59-68: a raising model.encode is logged and skipped
Encode(r) ==
    /\ pc[r] = "encode"
    /\ encodeCalls' = [encodeCalls EXCEPT ![r] = Append(@, idx[r])]
    /\ \/ /\ to_upsert' = [to_upsert EXCEPT ![r] = Append(@, Point(r, idx[r]))]
          /\ UNCHANGED <<encodeFailed, failures>>
       \/ /\ MayFail("embed")
          /\ Cardinality(encodeFailed[r]) < MaxEmbedFailures
          /\ encodeFailed' = [encodeFailed EXCEPT ![r] = @ \cup {idx[r]}]
          /\ Failed(r, "embed")
          /\ UNCHANGED to_upsert
    /\ Goto(r, "emb_commit")
    /\ UNCHANGED <<document_id, fileText, tmpFile, removeCalls, job, chunks, idx,
                   upsertCalls, archiveCalls, exc, dbVars, ensureVars,
                   collections, retrieveVars, statusReply, otherVars, faults>>

\* a marker only for a chunk whose vector was computed
AddEmbeddingIfEncoded(rows, r, i) ==
    IF i \in encodeFailed[r] THEN rows ELSE Append(rows, ChunkId(r, i))

\* line 70: Embedding(chunk_id=chunk.id), after the try/except of lines 59-68
AddEmbedding(rows, r, i) == Append(rows, ChunkId(r, i))

\* lines 70-72, then the next iteration or the end of the loop
WriteEmbedding(r) ==
    /\ pc[r] = "emb_commit"
    /\ \/ /\ Stored(r)
          /\ embRows' = [embRows EXCEPT ![r] = AddEmbedding(@, r, idx[r])]
          /\ idx' = [idx EXCEPT ![r] = @ + 1]
          /\ Goto(r, LoopTarget(r, idx[r] + 1, to_upsert[r]))
          /\ UNCHANGED <<exc, failures>>
       \/ Except(r, "db", "emb_commit", job[r]) /\ UNCHANGED <<embRows, idx>>
    /\ UNCHANGED <<document_id, fileText, tmpFile, removeCalls, job, chunks,
                   to_upsert, encodeCalls, encodeFailed, upsertCalls,
                   archiveCalls, jobRows, jobWrites, chunkRows, ensureVars,
                   collections, retrieveVars, statusReply, otherVars, faults>>

\* ------------------------------------------------------- the vector service
\* replies of qclient.get_collection(name): the collection's info, or an
\* exception (the collection is missing, or the service cannot be reached)
Unavailable == IF MayFail("index") THEN {"unavailable"} ELSE {}
ProbeReplies(d) == (IF collections[d].exists THEN {"ok"} ELSE {"not_found"})
                       \cup Unavailable

\* replies of qclient.create_collection(name, ...): created, or an exception
\* (a collection of that name exists already, or the service cannot be reached)
CreateReplies(d) == (IF ~collections[d].exists THEN {"ok"} ELSE {"already_exists"})
                        \cup Unavailable

\* the arguments of both create_collection calls: worker.py:101-107 and
\* routes.py:189-195
CreateArgs(d, vector_size) ==
    [collection_name |-> get_document_collection_name(d), size |-> vector_size,
     distance |-> "COSINE"]

ProbeCall(d, reply) == [op |-> "get_collection",
                        args |-> [collection_name |-> get_document_collection_name(d)],
                        reply |-> reply]
CreateCall(d, vector_size, reply) ==
    [op |-> "create_collection", args |-> CreateArgs(d, vector_size), reply |-> reply]

\* a create_collection that creates every missing collection
CreatedForAll(d, reply) ==
    IF reply = "ok"
    THEN collections' = [x \in Docs |-> IF collections[x].exists THEN collections[x]
                                         ELSE Present({})]
    ELSE UNCHANGED collections

\* the effect of a create_collection call on the service
Created(d, reply) ==
    IF reply = "ok" THEN collections' = [collections EXCEPT ![d] = Present({})]
    ELSE UNCHANGED collections

\* worker.py:112 and routes.py:199: `attempt < max_retries - 1` is false
LastAttemptOffByOne(c) == ~(attempt[c] < max_retries)
LastAttempt(c) == ~(attempt[c] < max_retries - 1)

\* what an attempt whose create_collection raised does next (worker.py:111-118,
\* routes.py:198-205): sleep and retry, or re-raise on the last attempt
RetryOrRaise(c) ==
    IF ~LastAttempt(c)
    THEN /\ attempt' = [attempt EXCEPT ![c] = @ + 1]
         /\ UNCHANGED ensureState
    ELSE /\ ensureState' = [ensureState EXCEPT ![c] = "failed"]
         /\ UNCHANGED attempt

\* ------------------------------------ process_document: indexing (74-131)
\* lines 75-88: get_qdrant(), collection name, vector size, loop entered
BeginIndex(r) ==
    /\ pc[r] = "index"
    /\ \/ /\ Goto(r, "probe")
          /\ attempt' = [attempt EXCEPT ![r] = 0]
          /\ ensureLog' = [ensureLog EXCEPT ![r] = <<>>]
          /\ ensureState' = [ensureState EXCEPT ![r] = "running"]
          /\ UNCHANGED failures
       \/ /\ MayFail("index")       \* get_qdrant() raises: line 129
          /\ Goto(r, "archive")
          /\ Failed(r, "index")
          /\ UNCHANGED ensureVars
    /\ UNCHANGED <<document_id, fileText, tmpFile, removeCalls, job, chunks, idx,
                   to_upsert, encodeCalls, encodeFailed, upsertCalls,
                   archiveCalls, exc, dbVars, collections, retrieveVars, statusReply, otherVars, faults>>

\* lines 91-98: the existence probe of one attempt
WorkerProbe(r) ==
    /\ pc[r] = "probe"
    /\ \E reply \in ProbeReplies(document_id[r]) :
        /\ ensureLog' = [ensureLog EXCEPT ![r] =
                            Append(@, ProbeCall(document_id[r], reply))]
        /\ IF reply = "ok"
           THEN /\ ensureState' = [ensureState EXCEPT ![r] = "ok"]
                /\ Goto(r, "upsert")
           ELSE /\ UNCHANGED ensureState
                /\ Goto(r, "create")
    /\ UNCHANGED <<document_id, fileText, tmpFile, removeCalls, job, chunks, idx,
                   to_upsert, encodeCalls, encodeFailed, upsertCalls,
                   archiveCalls, exc, failures, dbVars, attempt, collections,
                   retrieveVars, statusReply, otherVars, faults>>

\* lines 100-118 with the handler of line 129 missing: the error re-raised by
\* the last attempt reaches line 147
WorkerCreateFatal(r) ==
    /\ pc[r] = "create"
    /\ \E reply \in CreateReplies(document_id[r]) :
        /\ ensureLog' = [ensureLog EXCEPT ![r] =
              Append(@, CreateCall(document_id[r], to_upsert[r][1].vector.dim, reply))]
        /\ Created(document_id[r], reply)
        /\ IF reply = "ok"
           THEN /\ ensureState' = [ensureState EXCEPT ![r] = "ok"]
                /\ Goto(r, "upsert")
                /\ UNCHANGED <<attempt, failures, exc>>
           ELSE /\ RetryOrRaise(r)
                /\ IF ~LastAttempt(r)
                   THEN Goto(r, "probe") /\ UNCHANGED <<failures, exc>>
                   ELSE Except(r, "index", "ensure", job[r])
    /\ UNCHANGED <<document_id, fileText, tmpFile, removeCalls, job, chunks, idx,
                   to_upsert, encodeCalls, encodeFailed, upsertCalls,
                   archiveCalls, dbVars, retrieveVars, statusReply, otherVars, faults>>

\* a loop that gives up after the first create_collection that raised
WorkerCreateNoRetry(r) ==
    /\ pc[r] = "create"
    /\ \E reply \in CreateReplies(document_id[r]) :
        /\ ensureLog' = [ensureLog EXCEPT ![r] =
              Append(@, CreateCall(document_id[r], to_upsert[r][1].vector.dim, reply))]
        /\ Created(document_id[r], reply)
        /\ IF reply = "ok"
           THEN /\ ensureState' = [ensureState EXCEPT ![r] = "ok"]
                /\ Goto(r, "upsert")
                /\ UNCHANGED failures
           ELSE /\ ensureState' = [ensureState EXCEPT ![r] = "failed"]
                /\ Goto(r, "archive")
                /\ Failed(r, "index")
    /\ UNCHANGED <<document_id, fileText, tmpFile, removeCalls, job, chunks, idx,
                   to_upsert, encodeCalls, encodeFailed, upsertCalls,
                   archiveCalls, exc, dbVars, attempt, retrieveVars, statusReply,
                   otherVars, faults>>

\* lines 100-118: the create call of one attempt, and the retry decision; the
\* re-raised error of the last attempt is caught at line 129
WorkerCreate(r) ==
    /\ pc[r] = "create"
    /\ \E reply \in CreateReplies(document_id[r]) :
        /\ ensureLog' = [ensureLog EXCEPT ![r] =
              Append(@, CreateCall(document_id[r], to_upsert[r][1].vector.dim, reply))]
        /\ Created(document_id[r], reply)
        /\ IF reply = "ok"
           THEN /\ ensureState' = [ensureState EXCEPT ![r] = "ok"]
                /\ Goto(r, "upsert")
                /\ UNCHANGED <<attempt, failures>>
           ELSE /\ RetryOrRaise(r)
                /\ IF ~LastAttempt(r)
                   THEN Goto(r, "probe") /\ UNCHANGED failures
                   ELSE Goto(r, "archive") /\ Failed(r, "index")
    /\ UNCHANGED <<document_id, fileText, tmpFile, removeCalls, job, chunks, idx,
                   to_upsert, encodeCalls, encodeFailed, upsertCalls,
                   archiveCalls, exc, dbVars, retrieveVars, statusReply, otherVars, faults>>

\* replies of qclient.upsert: stored, or an exception
UpsertReplies(d) == (IF collections[d].exists THEN {"ok"} ELSE {"not_found"})
                        \cup Unavailable

\* the set of the elements of a sequence
Range(s) == {s[i] : i \in 1..Len(s)}

\* lines 120-131: one batch upsert; a raising upsert is caught at line 129
Upsert(r) ==
    /\ pc[r] = "upsert"
    /\ \E reply \in UpsertReplies(document_id[r]) :
        /\ upsertCalls' = [upsertCalls EXCEPT ![r] =
              Append(@, [collection_name |-> get_document_collection_name(document_id[r]),
                         points |-> to_upsert[r], reply |-> reply])]
        /\ IF reply = "ok"
           THEN /\ collections' = [collections EXCEPT ![document_id[r]] =
                                       Present(@.points \cup Range(to_upsert[r]))]
                /\ UNCHANGED failures
           ELSE /\ UNCHANGED collections
                /\ Failed(r, "index")
    /\ Goto(r, "archive")
    /\ UNCHANGED <<document_id, fileText, tmpFile, removeCalls, job, chunks, idx,
                   to_upsert, encodeCalls, encodeFailed, archiveCalls, exc,
                   dbVars, ensureVars, retrieveVars, statusReply, otherVars, faults>>

\* --------------------------- process_document: archive, done, except, finally
\* lines 133-136: a raising upload is logged and ignored
Archive(r) ==
    /\ pc[r] = "archive"
    /\ archiveCalls' = [archiveCalls EXCEPT ![r] = @ + 1]
    /\ \/ UNCHANGED failures
       \/ MayFail("archive") /\ Failed(r, "archive")
    /\ Goto(r, "done_commit")
    /\ UNCHANGED <<document_id, fileText, tmpFile, removeCalls, job, chunks, idx,
                   to_upsert, encodeCalls, encodeFailed, upsertCalls, exc,
                   dbVars, ensureVars, collections, retrieveVars, statusReply, otherVars, faults>>

\* lines 140-141 applied to the in-memory Job j
MarkDoneKeepsProgress(j) == [j EXCEPT !.status = "done"]
MarkDone(j) == [j EXCEPT !.status = "done", !.progress = 100]

\* lines 140-143
WriteDone(r) ==
    /\ pc[r] = "done_commit"
    /\ job' = [job EXCEPT ![r] = MarkDone(job[r])]
    /\ \/ /\ CommitJob(r, MarkDone(job[r]))
          /\ Goto(r, "done_refresh")
          /\ UNCHANGED <<exc, failures>>
       \/ /\ Except(r, "db", "done_commit", MarkDone(job[r]))
          /\ UNCHANGED <<jobRows, jobWrites>>
    /\ UNCHANGED <<document_id, fileText, tmpFile, removeCalls, chunks, idx,
                   to_upsert, encodeCalls, encodeFailed, upsertCalls,
                   archiveCalls, chunkRows, embRows, ensureVars, collections,
                   retrieveVars, statusReply, otherVars, faults>>

\* line 144: db.refresh(job) after the done commit, still inside the try
RefreshDone(r) ==
    /\ pc[r] = "done_refresh"
    /\ \/ RefreshJob(r) /\ Goto(r, "close") /\ UNCHANGED <<exc, failures>>
       \/ Except(r, "db", "done_refresh", job[r]) /\ UNCHANGED job
    /\ UNCHANGED <<document_id, fileText, tmpFile, removeCalls, chunks, idx,
                   to_upsert, encodeCalls, encodeFailed, upsertCalls,
                   archiveCalls, dbVars, ensureVars, collections, retrieveVars, statusReply, otherVars, faults>>

\* lines 151-154 and 160-161: db.refresh(job) in the handler; it cannot load a
\* row that was never persisted, and whatever it raises is swallowed
ExceptRefresh(r) ==
    /\ pc[r] = "except_refresh"
    /\ \/ /\ jobRows[r] # NoRow
          /\ RefreshJob(r)
          /\ Goto(r, "except_commit")
          /\ UNCHANGED failures
       \/ /\ jobRows[r] = NoRow \/ MayFail("handler")
          /\ Goto(r, "close")
          /\ Failed(r, "handler")
          /\ UNCHANGED job
    /\ UNCHANGED <<document_id, fileText, tmpFile, removeCalls, chunks, idx,
                   to_upsert, encodeCalls, encodeFailed, upsertCalls,
                   archiveCalls, exc, dbVars, ensureVars, collections,
                   retrieveVars, statusReply, otherVars, faults>>

\* lines 155-156 applied to the in-memory Job j, with msg = str(e)
MarkFailedResetsProgress(j, msg) ==
    [j EXCEPT !.status = "failed", !.error = msg, !.progress = 0]
MarkFailed(j, msg) == [j EXCEPT !.status = "failed", !.error = msg]

\* lines 155-161: the failure write; a raising commit is swallowed
ExceptCommit(r) ==
    /\ pc[r] = "except_commit"
    /\ job' = [job EXCEPT ![r] = MarkFailed(job[r], exc[r])]
    /\ \/ /\ CommitJob(r, MarkFailed(job[r], exc[r]))
          /\ UNCHANGED failures
       \/ /\ MayFail("handler") \/ ~Stored(r)
          /\ Failed(r, "handler")
          /\ UNCHANGED <<jobRows, jobWrites>>
    /\ Goto(r, "close")
    /\ UNCHANGED <<document_id, fileText, tmpFile, removeCalls, chunks, idx,
                   to_upsert, encodeCalls, encodeFailed, upsertCalls,
                   archiveCalls, exc, chunkRows, embRows, ensureVars,
                   collections, retrieveVars, statusReply, otherVars, faults>>

\* lines 163-164: db.close() is the first statement of the finally block and
\* is not guarded: if it raises, the rest of the block is skipped
CloseSession(r) ==
    /\ pc[r] = "close"
    /\ \/ Goto(r, "remove") /\ UNCHANGED failures
       \/ MayFail("close") /\ Goto(r, "raised") /\ Failed(r, "close")
    /\ UNCHANGED <<document_id, fileText, tmpFile, removeCalls, job, chunks, idx,
                   to_upsert, encodeCalls, encodeFailed, upsertCalls,
                   archiveCalls, exc, dbVars, ensureVars, collections,
                   retrieveVars, statusReply, otherVars, faults>>

\* lines 165-168: os.remove(local_path); a raising remove is ignored
RemoveFile(r) ==
    /\ pc[r] = "remove"
    /\ removeCalls' = [removeCalls EXCEPT ![r] = @ + 1]
    /\ \/ tmpFile' = [tmpFile EXCEPT ![r] = "removed"] /\ UNCHANGED failures
       \/ MayFail("remove") /\ UNCHANGED tmpFile /\ Failed(r, "remove")
    /\ Goto(r, "returned")
    /\ UNCHANGED <<document_id, fileText, job, chunks, idx, to_upsert,
                   encodeCalls, encodeFailed, upsertCalls, archiveCalls, exc,
                   dbVars, ensureVars, collections, retrieveVars, statusReply, otherVars, faults>>

\* one step of the ingestion run r
process_document(r) ==
    \/ OpenSession(r)
    \/ CreateJob(r)
    \/ RefreshNewJob(r)
    \/ ExtractAndChunk(r)
    \/ LoadModel(r)
    \/ WriteProgress(r)
    \/ WriteChunk(r)
    \/ RefreshChunk(r)
    \/ Encode(r)
    \/ WriteEmbedding(r)
    \/ BeginIndex(r)
    \/ WorkerProbe(r)
    \/ WorkerCreate(r)
    \/ Upsert(r)
    \/ Archive(r)
    \/ WriteDone(r)
    \/ RefreshDone(r)
    \/ ExceptRefresh(r)
    \/ ExceptCommit(r)
    \/ CloseSession(r)
    \/ RemoveFile(r)

Ended(r) == pc[r] \in {"returned", "raised"}

Next == \E r \in Runs : process_document(r)

Spec == Init /\ [][Next]_vars

\* ------------------------------------------------ retrieve_top_k (routes.py)
\* the document_id arguments that are not a document id: None and ""
NoDocumentIds == {None, ""}

\* the values of k retrieve is called with
Ks == {2, AskK}

\* qclient.search(..., limit): the `limit` best-scoring points of the
\* collection in descending score order; the scores depend on the query
\* vector, so any selection in any order is possible
SearchHits(points, limit) ==
    LET n == Min(limit, Cardinality(points))
    IN  {h \in [1..n -> points] : \A i, j \in 1..n : i # j => h[i] # h[j]}

\* score of the hit at position i of n hits (descending with i)
Score(i, n) == n - i + 1

\* text[:n]
Prefix(text, n) == SubSeq(text, 1, Min(n, Len(text)))

\* a truncation that appends no marker
TruncateWithoutMarker(text) == Prefix(text, TruncateLen)

\* lines 244-246
Truncate(text) ==
    IF Len(text) > TruncateLen THEN Prefix(text, TruncateLen) \o <<".", ".", ".">>
    ELSE text

\* a fingerprint that is the whole text
FingerprintWholeText(text) == text

\* line 239: text_hash = text[:200]
Fingerprint(text) == Prefix(text, FingerprintLen)

\* a loop that stops one context late
EnoughOneLate(contexts, k) == Len(contexts) > k

\* line 251: len(contexts) >= k
Enough(contexts, k) == Len(contexts) >= k

\* the loop of lines 234-252 from hit i on, with the contexts and fingerprints
\* collected so far
RECURSIVE CollectContexts(_, _, _, _, _)
CollectContexts(hits, i, k, contexts, seen_texts) ==
    IF i > Len(hits) THEN contexts
    ELSE LET text      == hits[i].payload.chunk_text
             text_hash == Fingerprint(text)
             accepted  == Append(contexts, [score |-> Score(i, Len(hits)),
                                            payload |-> hits[i].payload,
                                            text |-> Truncate(text)])
         IN  IF text_hash \in seen_texts
             THEN CollectContexts(hits, i + 1, k, contexts, seen_texts)
             ELSE IF Enough(accepted, k) THEN accepted
             ELSE CollectContexts(hits, i + 1, k, accepted, seen_texts \cup {text_hash})

Returned(contexts) == [outcome |-> "returned", contexts |-> contexts]
Raised == [outcome |-> "raised", contexts |-> <<>>]

\* a handler that lets the exception go on to the caller
OnVectorFailureRaises == Raised

\* lines 256-260: `except Exception` around the vector-service calls returns []
OnVectorFailure == Returned(<<>>)

\* `if document_id is not None:`
HasDocumentNotNone(d) == d # None

\* line 219, `if document_id:`
HasDocument(d) == d \notin NoDocumentIds

\* lines 208-226: the query is embedded (outside the try), the client is
\* fetched; without a document id the result is empty
RetrieveCall ==
    /\ rpc = "idle"
    /\ rleft > 0
    /\ rleft' = rleft - 1
    /\ \E d \in Docs \cup NoDocumentIds, k \in Ks :
        /\ rdoc' = d
        /\ rk' = k
        /\ rhits' = <<>>
        /\ \/ /\ rresult' = Raised          \* model.encode(query) raises
              /\ UNCHANGED <<rpc, ensureVars>>
           \/ /\ rresult' = OnVectorFailure  \* get_qdrant() raises: line 217
              /\ UNCHANGED <<rpc, ensureVars>>
           \/ /\ ~HasDocument(d)
              /\ rresult' = Returned(<<>>)
              /\ UNCHANGED <<rpc, ensureVars>>
           \/ /\ HasDocument(d)
              /\ rresult' = NoResult
              /\ rpc' = "probe"
              /\ attempt' = [attempt EXCEPT ![Retriever] = 0]
              /\ ensureLog' = [ensureLog EXCEPT ![Retriever] = <<>>]
              /\ ensureState' = [ensureState EXCEPT ![Retriever] = "running"]
    /\ UNCHANGED <<faults, statusReply, otherVars, runVars, dbVars, collections>>

\* ensure_collection_exists, routes.py:181-186: the existence probe
RetrieveProbe ==
    /\ rpc = "probe"
    /\ \E reply \in ProbeReplies(rdoc) :
        /\ ensureLog' = [ensureLog EXCEPT ![Retriever] = Append(@, ProbeCall(rdoc, reply))]
        /\ IF reply = "ok"
           THEN /\ ensureState' = [ensureState EXCEPT ![Retriever] = "ok"]
                /\ rpc' = "search"
           ELSE /\ UNCHANGED ensureState
                /\ rpc' = "create"
    /\ UNCHANGED <<faults, statusReply, otherVars, runVars, dbVars, attempt, collections, rdoc, rk,
                   rresult, rleft, rhits>>

\* ensure_collection_exists, routes.py:188-205: the create call and the retry
\* decision; the error re-raised by the last attempt is caught at line 256
RetrieveCreate ==
    /\ rpc = "create"
    /\ \E reply \in CreateReplies(rdoc) :
        /\ ensureLog' = [ensureLog EXCEPT ![Retriever] =
                            Append(@, CreateCall(rdoc, VectorDim, reply))]
        /\ Created(rdoc, reply)
        /\ IF reply = "ok"
           THEN /\ ensureState' = [ensureState EXCEPT ![Retriever] = "ok"]
                /\ rpc' = "search"
                /\ UNCHANGED <<attempt, rresult>>
           ELSE /\ RetryOrRaise(Retriever)
                /\ IF ~LastAttempt(Retriever)
                   THEN rpc' = "probe" /\ UNCHANGED rresult
                   ELSE rpc' = "idle" /\ rresult' = OnVectorFailure
    /\ UNCHANGED <<faults, statusReply, otherVars, runVars, dbVars, rdoc, rk, rleft, rhits>>

\* lines 228-260: the search for 2k neighbours, deduplication and truncation;
\* a raising search gives the empty list
RetrieveSearch ==
    /\ rpc = "search"
    /\ \/ /\ collections[rdoc].exists
          /\ \E hits \in SearchHits(collections[rdoc].points, rk * 2) :
                /\ rhits' = hits
                /\ rresult' = Returned(CollectContexts(hits, 1, rk, <<>>, {}))
       \/ /\ ~collections[rdoc].exists \/ MayFail("index")
          /\ rhits' = <<>>
          /\ rresult' = OnVectorFailure
    /\ rpc' = "idle"
    /\ UNCHANGED <<faults, statusReply, otherVars, runVars, dbVars, ensureVars, collections, rdoc, rk, rleft>>

retrieve_top_k == RetrieveCall \/ RetrieveProbe \/ RetrieveCreate \/ RetrieveSearch

\* ------------------------------------------------ the system specification
\* texts of the runs of the system specification
SystemTexts == {Rep("a", n) : n \in 0..MaxSystemTextLen}

\* either two uploads have started two ingestion runs, of one document or of
\* two, or one upload has started one run and the query handler calls retrieve
\* while it runs
InitSystem ==
    \E docOf \in [Runs -> Docs], textOf \in [Runs -> SystemTexts] :
        /\ docOf["r1"] = "d1"
        /\ \/ InitState(Runs, docOf, textOf, SystemFaults, 0, NoCollections)
           \/ /\ docOf["r2"] = "d1" /\ textOf["r2"] = <<>>
              /\ InitState({"r1"}, docOf, textOf, SystemFaults, MaxRetrieves,
                           NoCollections)

NextSystem == Next \/ retrieve_top_k

SpecSystem == InitSystem /\ [][NextSystem]_vars

\* ------------------------------------------- the status handlers (routes.py)
\* the Job rows of document d, each named by the run that created it
JobsOf(d) == {r \in Runs : jobRows[r] # NoRow /\ jobRows[r].document_id = d}

\* Job.created_at ascending
CreatedAtAsc(a, b) == jobRows[a].created_at < jobRows[b].created_at

\* Job.created_at.desc(): row a sorts strictly before row b
CreatedAtDesc(a, b) == jobRows[a].created_at > jobRows[b].created_at

\* the order of the document ids under ORDER BY Job.document_id
DocumentIdOrder == <<"d1", "d2">>
DocumentIdRank(d) == CHOOSE i \in 1..Len(DocumentIdOrder) : DocumentIdOrder[i] = d

\* the arrangements of the rows S as a list
Arrangements(S) ==
    {s \in [1..Cardinality(S) -> S] : \A i, j \in 1..Cardinality(S) : i # j => s[i] # s[j]}

\* routes.py:319, order_by(Job.created_at.desc()): the lists the database can
\* return for the rows S (rows of equal created_at come in any order)
LatestFirst(S) ==
    {s \in Arrangements(S) :
        \A i, j \in 1..Len(s) : i < j => ~CreatedAtDesc(s[j], s[i])}

\* routes.py:353, order_by(Job.document_id, Job.created_at.desc())
ByDocumentLatestFirst(S) ==
    {s \in Arrangements(S) :
        \A i, j \in 1..Len(s) :
            i < j =>
                LET di == DocumentIdRank(jobRows[s[i]].document_id)
                    dj == DocumentIdRank(jobRows[s[j]].document_id)
                IN  di < dj \/ (di = dj /\ ~CreatedAtDesc(s[j], s[i]))}

\* routes.py:357-361: the first job of each document in the ordered list
RECURSIVE LatestJobByDoc(_, _, _)
LatestJobByDoc(jobs, i, latest_job_by_doc) ==
    IF i > Len(jobs) THEN latest_job_by_doc
    ELSE LET d == jobRows[jobs[i]].document_id
         IN  LatestJobByDoc(jobs, i + 1,
                 IF latest_job_by_doc[d] = None
                 THEN [latest_job_by_doc EXCEPT ![d] = jobs[i]]
                 ELSE latest_job_by_doc)

\* routes.py:310-333: the reply holds the status of the first job of the
\* ordered query, None when the document has no job
get_document_status ==
    /\ \E d \in Docs : \E jobs \in LatestFirst(JobsOf(d)) :
        statusReply' =
            [handler |-> "get_document_status",
             statuses |-> [x \in Docs |->
                 IF x # d THEN "unasked"
                 ELSE IF jobs = <<>> THEN None ELSE jobRows[jobs[1]].status]]
    /\ UNCHANGED <<runVars, dbVars, ensureVars, collections, retrieveVars, otherVars,
                   faults>>

\* routes.py:336-379: one entry per document, "uploaded" without a job
list_documents ==
    /\ \E jobs \in ByDocumentLatestFirst(UNION {JobsOf(d) : d \in Docs}) :
        LET latest_job_by_doc == LatestJobByDoc(jobs, 1, [d \in Docs |-> None])
        IN  statusReply' =
                [handler |-> "list_documents",
                 statuses |-> [d \in Docs |->
                     IF latest_job_by_doc[d] = None THEN "uploaded"
                     ELSE jobRows[latest_job_by_doc[d]].status]]
    /\ UNCHANGED <<runVars, dbVars, ensureVars, collections, retrieveVars, otherVars,
                   faults>>

\* ------------------------------------------------ the re-run specification
\* the faults of the re-run specification
RerunFaults == {"extract", "clock"}

\* two ingestion runs have been started, for one document or for two; they
\* run one after the other or interleaved, and the status handlers are called
\* at any time
InitRerun ==
    \E docOf \in [Runs -> Docs], textOf \in [Runs -> SystemTexts] :
        /\ docOf["r1"] = "d1"
        /\ InitState(Runs, docOf, textOf, RerunFaults, 0, NoCollections)

NextRerun == Next \/ get_document_status \/ list_documents

SpecRerun == InitRerun /\ [][NextRerun]_vars

\* --------------------------------------------- the retrieval specification
\* the retrieval specification injects no fault into the collection and
\* search calls; RetrieveCall keeps its own failures (the query embedding
\* and the client)
RetrieveFaults == {}

\* a chunk text longer than the fingerprint, ending in c
LongText(c) == [i \in 1..FingerprintLen + 1 |-> IF i <= FingerprintLen THEN "a" ELSE c]

\* the chunk texts of the stored points: two short ones and two that differ
\* after their first FingerprintLen characters only
RetrieveTexts == <<<<"b">>, <<"c">>, LongText("x"), LongText("y")>>

\* the point an ingestion run stored for chunk i with that text (worker.py:61-65)
StoredPoint(i, text) ==
    [id |-> ChunkId("r1", i), vector |-> [dim |-> VectorDim],
     payload |-> [document_id |-> "d1", chunk_index |-> i, chunk_text |-> text]]

\* the collections of n points, up to the order of the chunks
StoredCollections(n) ==
    {Present({StoredPoint(i - 1, RetrieveTexts[t[i]]) : i \in 1..n}) :
        t \in {u \in [1..n -> 1..Len(RetrieveTexts)] :
                \A i, j \in 1..n : i < j => u[i] <= u[j]}}

\* document d1 was ingested earlier (or never); the query handler makes
\* retrieve calls
InitRetrieve ==
    \E c \in {Absent} \cup UNION {StoredCollections(n) : n \in 0..MaxPoints} :
        InitState({}, [r \in Runs |-> "d1"], [r \in Runs |-> <<>>], RetrieveFaults,
                  MaxRetrieves, [d \in Docs |-> IF d = "d1" THEN c ELSE Absent])

SpecRetrieve == InitRetrieve /\ [][retrieve_top_k]_vars

\* -------------------------------------------------------------- ask_question
\* routes.py:467
NoContextAnswer == "No relevant context. Upload documents first."
\* routes.py:267: limited_contexts = context_texts[:3]
CompletionContexts == 3

\* line 461: context_texts = [c["text"] for c in contexts]
ContextTexts(contexts) == [i \in 1..Len(contexts) |-> contexts[i].text]

\* a handler that always goes on to the completion
NoContextNever(context_texts) == FALSE

\* line 464: `if not context_texts:`
NoContext(context_texts) == context_texts = <<>>

\* the response to the ask request whose retrieve_top_k call was `call`
AskReply(call, status, answer, contexts, completion) ==
    [call |-> call, document_id |-> rdoc, retrieved |-> rresult, status |-> status,
     answer |-> answer, contexts |-> contexts, completion |-> completion]

\* routes.py:452-489 from the return of retrieve_top_k(query, k=4, document_id)
\* on: the no-context answer, or the request to the completion service
\* (generate_answer, 263-301) and the answer with the contexts; every exception
\* becomes the 500 of line 489
ask_question ==
    /\ rpc = "idle"
    /\ rresult.outcome # None
    /\ rk = AskK
    /\ \A n \in 1..Len(askLog) : askLog[n].call # rleft
    /\ LET context_texts == ContextTexts(rresult.contexts)
           request == [contexts |-> Prefix(context_texts, CompletionContexts)]
       IN  \/ /\ rresult.outcome = "raised"
              /\ askLog' = Append(askLog, AskReply(rleft, "500", None, <<>>, <<>>))
           \/ /\ rresult.outcome = "returned"
              /\ NoContext(context_texts)
              /\ askLog' = Append(askLog,
                                  AskReply(rleft, "200", NoContextAnswer, <<>>, <<>>))
           \/ /\ rresult.outcome = "returned"
              /\ ~NoContext(context_texts)
              /\ \/ askLog' = Append(askLog,
                        AskReply(rleft, "200", "answer", rresult.contexts, <<request>>))
                 \/ /\ MayFail("completion")
                    /\ askLog' = Append(askLog,
                            AskReply(rleft, "500", None, <<>>, <<request>>))
    /\ UNCHANGED <<runVars, dbVars, ensureVars, collections, retrieveVars,
                   statusReply, documents, deleteLog, ck, uploadReply, faults>>

\* the vector service and the completion service may fail
AskFaults == {"index", "completion"}

\* chunk texts of 1, TruncateLen and TruncateLen + 1 characters
AskTexts ==
    <<<<"c">>, [i \in 1..TruncateLen |-> "a"], [i \in 1..TruncateLen + 1 |-> "b"]>>

\* document d1 was ingested earlier (or never) and its collection holds some
\* of the points; the ask handler is called
InitAsk ==
    \E S \in SUBSET (1..Len(AskTexts)) :
        /\ Cardinality(S) <= MaxAskPoints
        /\ \E c \in {Absent, Present({StoredPoint(i - 1, AskTexts[i]) : i \in S})} :
            InitState({}, [r \in Runs |-> "d1"], [r \in Runs |-> <<>>], AskFaults,
                      MaxRetrieves, [d \in Docs |-> IF d = "d1" THEN c ELSE Absent])

NextAsk == retrieve_top_k \/ ask_question

SpecAsk == InitAsk /\ [][NextAsk]_vars

\* ---------------------------------------------------------- delete_document
\* config.py:26: the collection shared by all documents in earlier versions
QDRANT_COLLECTION == <<"legacy">>

\* routes.py:412: the ids of the Chunk rows of document d
ChunkIdsOf(d) ==
    UNION {{chunkRows[r][i].id : i \in 1..Len(chunkRows[r])} :
            r \in {x \in Runs : document_id[x] = d}}

\* a deletion call made to the vector service
DeleteCall(op, name, ids, reply) ==
    [op |-> op, collection_name |-> name, points |-> ids, reply |-> reply]

\* the replies with which delete_collection raises
DeleteCollectionFailures(d) ==
    (IF collections[d].exists THEN {} ELSE {"not_found"}) \cup Unavailable
\* the replies with which a deletion of points raises
DeletePointsFailures(d) ==
    (IF collections[d].exists THEN {} ELSE {"not_found"}) \cup Unavailable

\* routes.py:402-433: the calls made to the vector service and the collection
\* they leave.  get_qdrant() may raise (line 431); delete_collection removes
\* the collection or raises; after it raised, the points of the document's
\* Chunk rows are deleted from the document's collection, and after that
\* raised, from the legacy collection, whose failure is passed over
QdrantDeletions(d) ==
    LET name == get_document_collection_name(d)
        ids == ChunkIdsOf(d)
        kept == collections[d]
        dropped(reply) == DeleteCall("delete_collection", name, {}, reply)
        byId(reply) == DeleteCall("delete", name, ids, reply)
        legacy(reply) == DeleteCall("delete", QDRANT_COLLECTION, ids, reply)
        fallback(first) ==
            IF ids = {}
            THEN {[calls |-> <<dropped(first)>>, collection |-> kept]}
            ELSE {[calls |-> <<dropped(first), byId("ok")>>,
                   collection |-> [kept EXCEPT !.points = {p \in @ : p.id \notin ids}]] :
                        x \in IF kept.exists THEN {TRUE} ELSE {}}
                 \cup {[calls |-> <<dropped(first), byId(second), legacy(third)>>,
                        collection |-> kept] :
                        second \in DeletePointsFailures(d),
                        third \in {"ok", "not_found"} \cup Unavailable}
                 \cup {[calls |-> <<dropped(first)>>, collection |-> kept] :
                        x \in IF MayFail("db") THEN {TRUE} ELSE {}}
    IN  {[calls |-> <<>>, collection |-> kept]}
        \cup {[calls |-> <<dropped("ok")>>, collection |-> Absent]}
        \cup UNION {fallback(first) : first \in DeleteCollectionFailures(d)}

\* a delete that leaves the rows of the document's other tables
CascadeKeepsRows(rows, d, none) == rows

\* models.py:21, 30 and 39, ondelete="CASCADE": the rows of document d go with
\* the Document row
Cascade(rows, d, none) ==
    [r \in Runs |-> IF document_id[r] = d THEN none ELSE rows[r]]

\* the ingestion runs of document d that have started and not ended
InFlight(d) ==
    {r \in Runs : document_id[r] = d /\ pc[r] \notin {"idle", "returned", "raised"}}

\* routes.py:382-449, the whole handler
delete_document ==
    /\ Len(deleteLog) < MaxDeletes
    /\ \E d \in Docs :
        IF d \notin documents
        THEN \* lines 392-394: 404
             /\ deleteLog' = Append(deleteLog,
                    [document_id |-> d, found |-> FALSE, outcome |-> "not_found",
                     calls |-> <<>>, blob |-> None, inflight |-> InFlight(d)])
             /\ UNCHANGED <<documents, collections, dbVars>>
        ELSE \E q \in QdrantDeletions(d),
                blob \in {"ok"} \cup (IF MayFail("blob") THEN {"failed"} ELSE {}) :
                /\ collections' = [collections EXCEPT ![d] = q.collection]
                /\ \/ \* lines 445-447
                      /\ documents' = documents \ {d}
                      /\ jobRows' = Cascade(jobRows, d, NoRow)
                      /\ chunkRows' = Cascade(chunkRows, d, <<>>)
                      /\ embRows' = Cascade(embRows, d, <<>>)
                      /\ deleteLog' = Append(deleteLog,
                            [document_id |-> d, found |-> TRUE, outcome |-> "deleted",
                             calls |-> q.calls, blob |-> blob,
                             inflight |-> InFlight(d)])
                   \/ \* db.delete or db.commit raises
                      /\ MayFail("db")
                      /\ deleteLog' = Append(deleteLog,
                            [document_id |-> d, found |-> TRUE, outcome |-> "raised",
                             calls |-> q.calls, blob |-> blob,
                             inflight |-> InFlight(d)])
                      /\ UNCHANGED <<documents, jobRows, chunkRows, embRows>>
                /\ UNCHANGED jobWrites
    /\ UNCHANGED <<runVars, ensureVars, retrieveVars, statusReply, askLog, ck,
                   uploadReply, faults>>

\* the vector service and the blob store may fail, and so may the extraction
DeleteFaults == {"index", "blob", "extract"}

\* document d1 was uploaded and run r1 ingests it; documents are deleted
\* after the run
InitDelete ==
    \E t \in SystemTexts :
        InitState({"r1"}, [r \in Runs |-> "d1"],
                  [r \in Runs |-> IF r = "r1" THEN t ELSE <<>>], DeleteFaults, 0,
                  NoCollections)

DeleteAfterIngestion ==
    /\ \A r \in Runs : pc[r] = "idle" \/ Ended(r)
    /\ delete_document

NextDelete == Next \/ DeleteAfterIngestion

SpecDelete == InitDelete /\ [][NextDelete]_vars

\* the same, and retrieve is called after a deletion
InitDeleted ==
    \E t \in SystemTexts :
        InitState({"r1"}, [r \in Runs |-> "d1"],
                  [r \in Runs |-> IF r = "r1" THEN t ELSE <<>>], DeleteFaults,
                  MaxRetrieves, NoCollections)

RetrieveAfterDelete ==
    /\ deleteLog # <<>>
    /\ retrieve_top_k

NextDeleted == NextDelete \/ RetrieveAfterDelete

SpecDeleted == InitDeleted /\ [][NextDeleted]_vars

\* the extraction may fail; the vector service answers every call
OrphanFaults == {"extract"}

\* document d1 was uploaded and run r1 ingests it; documents are deleted after
\* the run, and retrieve is called after a deletion
InitOrphan ==
    \E t \in SystemTexts :
        InitState({"r1"}, [r \in Runs |-> "d1"],
                  [r \in Runs |-> IF r = "r1" THEN t ELSE <<>>], OrphanFaults,
                  MaxRetrieves, NoCollections)

SpecOrphan == InitOrphan /\ [][NextDeleted]_vars

\* ------------------------------------------- deletion during the ingestion
\* text extraction may fail; the other calls fail only on rows of a deleted
\* document
RaceFaults == {"extract"}

\* document d1 was uploaded and run r1 ingests it; delete requests arrive at
\* any moment of the run
InitRace ==
    \E t \in SystemTexts :
        InitState({"r1"}, [r \in Runs |-> "d1"],
                  [r \in Runs |-> IF r = "r1" THEN t ELSE <<>>], RaceFaults, 0,
                  NoCollections)

NextRace == Next \/ delete_document

SpecRace == InitRace /\ [][NextRace]_vars

\* ------------------------------------------------------------- the upload
\* the file names of the upload requests
FileNames == {"", "f"}

\* routes.py:115-158, the whole handler, serving the request whose file would
\* be ingested by run r; the new Document row gets the id document_id[r]
upload_file(r) ==
    /\ pc[r] = "idle"
    /\ uploadReply[r] = NoUpload
    /\ \E name \in FileNames :
        \/ /\ name = ""
           /\ uploadReply' = [uploadReply EXCEPT ![r] = UploadError(400, "No filename")]
           /\ UNCHANGED <<tmpFile, documents, pc>>
        \/ /\ name # ""
           /\ MayFail("write")
           /\ \E f \in {"absent", "present"} : tmpFile' = [tmpFile EXCEPT ![r] = f]
           /\ uploadReply' = [uploadReply EXCEPT ![r] = UploadError(500, "write")]
           /\ UNCHANGED <<documents, pc>>
        \/ /\ name # ""
           /\ tmpFile' = [tmpFile EXCEPT ![r] = "present"]
           /\ \E url \in {"url"} \cup (IF MayFail("blob") THEN {"s3"} ELSE {}) :
                \/ /\ \E kind \in {"session", "db"} :
                        /\ MayFail(kind)
                        /\ uploadReply' = [uploadReply EXCEPT ![r] =
                                              UploadError(500, kind)]
                   /\ UNCHANGED <<documents, pc>>
                \/ /\ documents' = documents \cup {document_id[r]}
                   /\ pc' = [pc EXCEPT ![r] = "start"]
                   /\ uploadReply' = [uploadReply EXCEPT ![r] =
                                         Uploaded(document_id[r], url)]
    /\ UNCHANGED <<document_id, fileText, removeCalls, job, chunks, idx, to_upsert,
                   encodeCalls, encodeFailed, upsertCalls, archiveCalls, exc,
                   failures, dbVars, ensureVars, collections, retrieveVars,
                   statusReply, deleteLog, askLog, ck, faults>>

\* the calls that may fail around an upload
UploadFaults == {"write", "blob", "session", "db"}

\* no document is stored and no temporary file is written yet; the request
\* of run r1 uploads document d1
InitUpload ==
    \E t \in SystemTexts :
        /\ faults = UploadFaults
        /\ pc = [r \in Runs |-> "idle"]
        /\ document_id = [r \in Runs |-> "d1"]
        /\ fileText = [r \in Runs |-> IF r = "r1" THEN t ELSE <<>>]
        /\ tmpFile = [r \in Runs |-> "absent"]
        /\ uploadReply = [r \in Runs |-> NoUpload]
        /\ removeCalls = [r \in Runs |-> 0]
        /\ job = [r \in Runs |-> NoJob]
        /\ jobRows = [r \in Runs |-> NoRow]
        /\ jobWrites = [r \in Runs |-> <<>>]
        /\ chunks = [r \in Runs |-> <<>>]
        /\ idx = [r \in Runs |-> 0]
        /\ chunkRows = [r \in Runs |-> <<>>]
        /\ embRows = [r \in Runs |-> <<>>]
        /\ to_upsert = [r \in Runs |-> <<>>]
        /\ encodeCalls = [r \in Runs |-> <<>>]
        /\ encodeFailed = [r \in Runs |-> {}]
        /\ upsertCalls = [r \in Runs |-> <<>>]
        /\ archiveCalls = [r \in Runs |-> 0]
        /\ exc = [r \in Runs |-> None]
        /\ failures = [r \in Runs |-> {}]
        /\ attempt = [c \in Callers |-> 0]
        /\ ensureLog = [c \in Callers |-> <<>>]
        /\ ensureState = [c \in Callers |-> "idle"]
        /\ collections = NoCollections
        /\ rpc = "idle"
        /\ rdoc = None
        /\ rk = AskK
        /\ rresult = NoResult
        /\ rleft = 0
        /\ rhits = <<>>
        /\ statusReply = NoReply
        /\ documents = {}
        /\ deleteLog = <<>>
        /\ askLog = <<>>
        /\ ck = NoCall

NextUpload == upload_file("r1") \/ Next

SpecUpload == InitUpload /\ [][NextUpload]_vars

\* ------------------------------------ ingestion, status queries and retrieve
\* the extraction may fail, so that runs end done and failed
SharedFaults == {"extract"}

\* either two uploads, of one document or of two, have started two ingestion
\* runs and the status handlers are called while they run, or one upload has
\* started one run and the status handlers and retrieve are called while it
\* runs
InitShared ==
    \E docOf \in [Runs -> Docs], textOf \in [Runs -> SystemTexts] :
        /\ docOf["r1"] = "d1"
        /\ \/ InitState(Runs, docOf, textOf, SharedFaults, 0, NoCollections)
           \/ /\ docOf["r2"] = "d1" /\ textOf["r2"] = <<>>
              /\ InitState({"r1"}, docOf, textOf, SharedFaults, MaxRetrieves,
                           NoCollections)

NextShared == Next \/ get_document_status \/ list_documents \/ retrieve_top_k

SpecShared == InitShared /\ [][NextShared]_vars

\* ---------------------------------------- the two collection-ensure loops
\* one upload of a document of one chunk has started one ingestion run, and
\* retrieve is called while it runs; the vector service may fail at every call
InitEnsure ==
    InitState({"r1"}, [r \in Runs |-> "d1"],
              [r \in Runs |-> IF r = "r1" THEN <<"a">> ELSE <<>>], SystemFaults,
              MaxRetrieves, NoCollections)

SpecEnsure == InitEnsure /\ [][NextSystem]_vars

\* ------------------------------------- chunk_text, iteration by iteration
\* the 5000-character document of the upload scenario
ScenarioText == [i \in 1..5000 |-> "a"]

\* the arguments of the chunk_text calls: short texts with every size and
\* overlap (overlap >= size included), and the scenario text with the
\* configured defaults of config.py:33-34
ChunkerInputs ==
    (StringsUpTo({"a", " "}, MaxChunkerLen) \X (1..MaxChunkSize) \X (0..MaxChunkSize))
        \cup {<<ScenarioText, 2000, 200>>}

\* a loop that goes on behind the window
NextStartSkips(end, overlap) == end + 1

\* utils.py:40-42: start = end - overlap, clamped at 0
NextStart(end, overlap) == IF end - overlap < 0 THEN 0 ELSE end - overlap

\* a return without the filter
NonEmptyKeepsAll(chunks_) == chunks_

\* utils.py:43: [c for c in chunks if c]
NonEmpty(chunks_) == SelectSeq(chunks_, LAMBDA c : c # <<>>)

\* utils.py:32-35: the call and the initialisation of the locals
ChunkTextCall ==
    /\ ck.pc = "idle"
    /\ \E in \in ChunkerInputs :
        ck' = [NoCall EXCEPT !.pc = "loop", !.text = in[1], !.chunk_size = in[2],
                             !.overlap = in[3]]
    /\ UNCHANGED <<runVars, dbVars, ensureVars, collections, retrieveVars,
                   statusReply, documents, deleteLog, askLog, uploadReply, faults>>

\* utils.py:36-42: one iteration of the while loop; `windows` records the
\* (start, end) of the slice taken.  The iterations are counted up to one more
\* than len(text), which no terminating call reaches: an iteration that does
\* not advance `start` repeats for ever
ChunkTextStep ==
    /\ ck.pc = "loop"
    /\ ck.start < Len(ck.text)
    /\ Len(ck.chunks) <= Len(ck.text)
    /\ LET end == ck.start + ck.chunk_size
       IN  ck' = [ck EXCEPT !.chunks = Append(@, Strip(Slice(ck.text, ck.start, end))),
                            !.windows = Append(@, <<ck.start, end>>),
                            !.start = NextStart(end, ck.overlap)]
    /\ UNCHANGED <<runVars, dbVars, ensureVars, collections, retrieveVars,
                   statusReply, documents, deleteLog, askLog, uploadReply, faults>>

\* utils.py:36 and 43: the loop condition is false, the non-empty chunks are
\* returned
ChunkTextReturn ==
    /\ ck.pc = "loop"
    /\ ~(ck.start < Len(ck.text))
    /\ ck' = [ck EXCEPT !.pc = "returned", !.result = NonEmpty(ck.chunks)]
    /\ UNCHANGED <<runVars, dbVars, ensureVars, collections, retrieveVars,
                   statusReply, documents, deleteLog, askLog, uploadReply, faults>>

chunk_text_call == ChunkTextCall \/ ChunkTextStep \/ ChunkTextReturn

\* no run, no request: chunk_text alone
InitChunker ==
    InitState({}, [r \in Runs |-> "d1"], [r \in Runs |-> <<>>], {}, 0, NoCollections)

SpecChunker == InitChunker /\ [][chunk_text_call]_vars

\* ------------------------------------------------------------------ claims
Terminal == {"done", "failed"}
Last(s) == s[Len(s)]
TotalChunks(r) == Len(chunks[r])

\* C1: once a committed version of a Job row has status done or failed, the
\* pipeline commits no further version of that row (in particular a done Job
\* is never rewritten as failed).
C1_TerminalJobNeverRewritten ==
    \A r \in Runs : \A i \in 1..Len(jobWrites[r]) :
        jobWrites[r][i].status \in Terminal => i = Len(jobWrites[r])

\* C2: a run that created its Job row and has ended (returned or raised) has
\* left that row with status done or failed, never processing.
C2_EndedRunJobTerminal ==
    \A r \in Runs :
        Ended(r) /\ jobRows[r] # NoRow => jobRows[r].status \in Terminal

\* C3: when an exception raised after the Job row was created has reached the
\* handler of line 147, the handler leaves the row with status failed and
\* error equal to the exception's message.
C3_FatalErrorRecorded ==
    \A r \in Runs :
        (/\ exc[r] # None
         /\ jobRows[r] # NoRow
         /\ pc[r] \in {"close", "remove", "returned", "raised"})
        => jobRows[r].status = "failed" /\ jobRows[r].error = exc[r]

\* C4: the committed progress values of a Job, in commit order, lie in 0..100
\* and never decrease, the failure write included.
C4_ProgressNonDecreasing ==
    \A r \in Runs : \A i \in 1..Len(jobWrites[r]) :
        /\ jobWrites[r][i].progress \in 0..100
        /\ i > 1 => jobWrites[r][i - 1].progress <= jobWrites[r][i].progress

\* C4 witness: a progress commit raised while the row already held a positive
\* progress, and the failure write has been committed over it.
C4_Witness ==
    /\ exc["r1"] = "progress"
    /\ Len(jobWrites["r1"]) >= 3
    /\ Last(jobWrites["r1"]).status = "failed"
    /\ Last(jobWrites["r1"]).progress > 0

\* C5: every committed version of a Job with status done has progress 100,
\* every version with status processing has progress at most 90, and the
\* first version holding progress 100 is the one that sets status done.
C5_DoneIffHundred ==
    \A r \in Runs : \A i \in 1..Len(jobWrites[r]) :
        LET v == jobWrites[r][i]
        IN  /\ v.status = "done" => v.progress = 100
            /\ v.status = "processing" => v.progress <= 90
            /\ (v.progress = 100 /\ (i = 1 \/ jobWrites[r][i - 1].progress < 100))
                   => v.status = "done"

\* C5 witness: a Job that was committed as processing with progress 90 is now
\* done.
C5_Witness ==
    /\ jobRows["r1"].status = "done"
    /\ \E i \in 1..Len(jobWrites["r1"]) :
          jobWrites["r1"][i].status = "processing" /\ jobWrites["r1"][i].progress = 90

\* the staged points of the chunks of run r whose embedding did not fail
RECURSIVE EmbeddedPoints(_, _)
EmbeddedPoints(r, i) ==
    IF i >= TotalChunks(r) THEN <<>>
    ELSE (IF i \in encodeFailed[r] THEN <<>> ELSE <<Point(r, i)>>)
             \o EmbeddedPoints(r, i + 1)

\* C6: a run in which only embedding calls raised (for the chunks F) returns
\* with the Job done, all N Chunk rows persisted, model.encode called exactly
\* once per chunk in index order, and exactly the N-|F| points of the other
\* chunks upserted in one batch (no upsert when none is left).
C6_EmbeddingFailuresNonFatal ==
    \A r \in Runs :
        (pc[r] = "returned" /\ failures[r] \subseteq {"embed"})
        => /\ jobRows[r].status = "done"
           /\ Len(chunkRows[r]) = TotalChunks(r)
           /\ encodeCalls[r] = [i \in 1..TotalChunks(r) |-> i - 1]
           /\ Len(EmbeddedPoints(r, 0)) = TotalChunks(r) - Cardinality(encodeFailed[r])
           /\ IF EmbeddedPoints(r, 0) = <<>>
              THEN upsertCalls[r] = <<>>
              ELSE /\ Len(upsertCalls[r]) = 1
                   /\ upsertCalls[r][1].points = EmbeddedPoints(r, 0)
                   /\ upsertCalls[r][1].reply = "ok"
                   /\ Range(EmbeddedPoints(r, 0))
                          \subseteq collections[document_id[r]].points

\* C6 witness: embedding failed for chunk 1 of 3 and for nothing else, and the
\* run has returned.
C6_Witness ==
    /\ pc["r1"] = "returned"
    /\ TotalChunks("r1") = 3
    /\ encodeFailed["r1"] = {1}
    /\ failures["r1"] = {"embed"}

\* the kinds of calls whose exception reaches line 147 or leaves the function
FatalKinds == {"session", "db", "extract", "model", "handler", "close"}

\* C7: a run whose collection ensure or upsert failed, and in which no call
\* outside the swallowing handlers raised, returns with the Job done at
\* progress 100 and with every Chunk and Embedding row of the run persisted.
C7_IndexFailureNonFatal ==
    \A r \in Runs :
        (pc[r] = "returned" /\ "index" \in failures[r]
            /\ failures[r] \cap FatalKinds = {})
        => /\ jobRows[r].status = "done"
           /\ jobRows[r].progress = 100
           /\ Len(chunkRows[r]) = TotalChunks(r)
           /\ Len(embRows[r]) = TotalChunks(r)

\* C7 witness: all three ensure attempts failed and the run has returned with
\* its chunks written.
C7_Witness ==
    /\ pc["r1"] = "returned"
    /\ ensureState["r1"] = "failed"
    /\ Len(ensureLog["r1"]) = 2 * max_retries
    /\ chunkRows["r1"] # <<>>
    /\ jobRows["r1"].status = "done"

\* C8: the calls of one ensure (of the pipeline or of retrieve) alternate
\* probe, create, ...; a create follows only a probe that did not succeed; a
\* successful reply ends the ensure at once with success; the ensure fails
\* only when the create of the third attempt has failed; so it makes at most
\* 3 probes and 3 creates.
C8_EnsureBounded ==
    \A c \in Callers :
        LET log == ensureLog[c]
        IN  /\ Len(log) <= 2 * max_retries
            /\ \A i \in 1..Len(log) :
                  /\ log[i].op = (IF i % 2 = 1 THEN "get_collection"
                                  ELSE "create_collection")
                  /\ log[i].reply = "ok" => i = Len(log) /\ ensureState[c] = "ok"
            /\ ensureState[c] = "ok" => log # <<>> /\ Last(log).reply = "ok"
            /\ ensureState[c] = "failed" =>
                  /\ Len(log) = 2 * max_retries
                  /\ Last(log).op = "create_collection"
                  /\ Last(log).reply # "ok"
            /\ ensureState[c] = "running" => Len(log) < 2 * max_retries
            /\ ensureState[c] = "idle" => log = <<>>

\* C8 witness: the ensure of retrieve has failed after its third create, and
\* the ensure of the pipeline has succeeded at the create of its third attempt.
C8_Witness ==
    /\ ensureState[Retriever] = "failed"
    /\ ensureState["r1"] = "ok"
    /\ Len(ensureLog["r1"]) = 2 * max_retries

\* C9: no ensure call ends in failure on an "already exists" reply to its
\* create call, i.e. because another caller created the collection first.
C9_AlreadyExistsNotAnError ==
    \A c \in Callers :
        ensureState[c] = "failed" => Last(ensureLog[c]).reply # "already_exists"

\* C10: when a run has ended, by returning or by raising, os.remove of its
\* temporary file has been called.
C10_RemoveAlwaysAttempted ==
    \A r \in Runs : Ended(r) => removeCalls[r] >= 1

\* C11: no exception propagates out of process_document to the thread that
\* runs it: no run ever ends by raising.
C11_NoExceptionEscapes == \A r \in Runs : pc[r] # "raised"

\* the positions of a run after an exception reached the handler of line 147
AfterException == {"except_refresh", "except_commit", "close", "remove",
                   "returned", "raised"}

\* C12: once a fatal exception is raised in a run, no later pipeline step is
\* executed in it: the run is in its handler or finally block, a failure of
\* extraction or chunking leaves no Chunk or Embedding row, and no step adds a
\* Chunk or Embedding row, an ensure-collection call, an upsert call, an
\* archive call or a done write of that run.
C12_NoStepAfterFatal ==
    /\ [](\A r \in Runs :
            exc[r] # None =>
                /\ pc[r] \in AfterException
                /\ exc[r] = "extract" => chunkRows[r] = <<>> /\ embRows[r] = <<>>)
    /\ [][\A r \in Runs :
            exc[r] # None =>
                /\ chunkRows'[r] = chunkRows[r]
                /\ embRows'[r] = embRows[r]
                /\ ensureLog'[r] = ensureLog[r]
                /\ upsertCalls'[r] = upsertCalls[r]
                /\ archiveCalls'[r] = archiveCalls[r]
                /\ encodeCalls'[r] = encodeCalls[r]
                /\ jobWrites'[r] # jobWrites[r] =>
                        Last(jobWrites'[r]).status = "failed"]_vars

\* a run failed while committing an Embedding row, after Chunk rows were
\* written, and returned without indexing or archiving
C12_Witness ==
    /\ pc["r1"] = "returned"
    /\ exc["r1"] = "emb_commit"
    /\ Len(chunkRows["r1"]) = 2
    /\ Len(embRows["r1"]) = 1
    /\ ensureLog["r1"] = <<>>
    /\ archiveCalls["r1"] = 0
    /\ jobRows["r1"].status = "failed"

\* a done version of the run's Job row was committed
ReachedDone(r) == \E i \in 1..Len(jobWrites[r]) : jobWrites[r][i].status = "done"

\* C13: the chunk_index values of the Chunk rows a run has written are
\* 0..m-1 in creation order, with m at most the number N of chunks the chunker
\* produced, and m = N once the run has reached done.
C13_ChunkIndexesContiguous ==
    \A r \in Runs :
        /\ \A i \in 1..Len(chunkRows[r]) : chunkRows[r][i].chunk_index = i - 1
        /\ Len(chunkRows[r]) <= TotalChunks(r)
        /\ ReachedDone(r) => Len(chunkRows[r]) = TotalChunks(r)

\* a done run whose text has a whitespace-only window: three windows, two
\* chunks, indexes 0 and 1
C13_Witness ==
    /\ fileText["r1"] = <<" ", " ", "a">>
    /\ jobRows["r1"].status = "done"
    /\ Len(chunkRows["r1"]) = 2
    /\ chunkRows["r1"][2].chunk_index = 1

\* the Embedding rows of the table, each named by its run and position
EmbeddingRows == UNION {{<<r, i>> : i \in 1..Len(embRows[r])} : r \in Runs}
\* the Chunk ids referenced by some Embedding row
EmbeddedChunkIds == {embRows[e[1]][e[2]] : e \in EmbeddingRows}

\* C14: no Chunk row ever has more than one Embedding row (no two Embedding
\* rows reference the same Chunk), and every Chunk row of a run that reached
\* done has one, whether or not the chunk's vector was computed.
C14_OneEmbeddingPerChunk ==
    /\ Cardinality(EmbeddedChunkIds) = Cardinality(EmbeddingRows)
    /\ \A r \in Runs :
        ReachedDone(r) =>
            \A i \in 1..Len(chunkRows[r]) : chunkRows[r][i].id \in EmbeddedChunkIds

\* a done run of two chunks, the first of which could not be embedded
C14_Witness ==
    /\ jobRows["r1"].status = "done"
    /\ encodeFailed["r1"] = {0}
    /\ Len(chunkRows["r1"]) = 2
    /\ Len(embRows["r1"]) = 2

\* the text is empty or holds whitespace only
Blank(text) == \A i \in 1..Len(text) : text[i] \in Whitespace

\* C15: a run whose extracted text is empty or whitespace-only gets no chunk;
\* it never writes a Chunk or Embedding row and never makes an
\* ensure-collection or upsert call, and when it has returned and none of its
\* database, model-loading or archive calls raised, its Job is done with
\* progress 100.
C15_NoChunksCompletes ==
    \A r \in Runs :
        Blank(fileText[r]) =>
            /\ chunks[r] = <<>>
            /\ chunkRows[r] = <<>> /\ embRows[r] = <<>>
            /\ ensureLog[r] = <<>> /\ upsertCalls[r] = <<>>
            /\ (pc[r] = "returned" /\ failures[r] \subseteq {"remove"}) =>
                    /\ jobRows[r].status = "done"
                    /\ jobRows[r].progress = 100
                    /\ archiveCalls[r] = 1

\* a whitespace-only text ingested to done
C15_Witness ==
    /\ fileText["r1"] = <<" ", " ">>
    /\ pc["r1"] = "returned"
    /\ jobRows["r1"].status = "done"
    /\ jobRows["r1"].progress = 100

\* the statuses of the Jobs of document d with the greatest created_at
LatestStatuses(d) ==
    {jobRows[r].status :
        r \in {x \in JobsOf(d) :
                \A y \in JobsOf(d) : jobRows[y].created_at <= jobRows[x].created_at}}

\* C16: whenever a status handler replies, the status it reports for a
\* document that has Jobs (the single-document status, and the document's
\* entry of the document list) is the status of a Job with the greatest
\* created_at among that document's Jobs.
C16_StatusOfLatestJob ==
    [][statusReply' # statusReply =>
        \A d \in Docs :
            (JobsOf(d) # {} /\ statusReply'.statuses[d] # "unasked") =>
                statusReply'.statuses[d] \in LatestStatuses(d)]_vars

\* the document list shows done for a document whose first run failed and
\* whose later re-run is done
C16_Witness ==
    /\ statusReply.handler = "list_documents"
    /\ statusReply.statuses["d1"] = "done"
    /\ JobsOf("d1") = {"r1", "r2"}
    /\ jobRows["r1"].status = "failed"
    /\ jobRows["r2"].status = "done"
    /\ jobRows["r1"].created_at < jobRows["r2"].created_at
    /\ Ended("r1") /\ Ended("r2")

\* the Chunk rows of the table, each named by its run and position
ChunkRowsOfTable == UNION {{<<r, i>> : i \in 1..Len(chunkRows[r])} : r \in Runs}

\* C17: a run creates its own Job row and its own Chunk rows, whose ids are
\* new (no two Chunk rows of the table share an id, also when two runs ingest
\* one document), and no step changes a Job, Chunk or Embedding row of a run
\* that has ended.
C17_RerunLeavesRowsAlone ==
    /\ [](Cardinality({chunkRows[c[1]][c[2]].id : c \in ChunkRowsOfTable})
            = Cardinality(ChunkRowsOfTable))
    /\ [](\A r \in Runs :
            (pc[r] = "returned" /\ exc[r] = None) =>
                /\ jobRows[r] # NoRow
                /\ Len(chunkRows[r]) = TotalChunks(r))
    /\ [][\A r \in Runs :
            Ended(r) =>
                /\ jobRows'[r] = jobRows[r]
                /\ chunkRows'[r] = chunkRows[r]
                /\ embRows'[r] = embRows[r]]_vars

\* document d1 ingested twice, one chunk each time: two Jobs and two Chunk
\* rows of the same index side by side
C17_Witness ==
    /\ document_id["r1"] = "d1" /\ document_id["r2"] = "d1"
    /\ pc["r1"] = "returned" /\ pc["r2"] = "returned"
    /\ jobRows["r1"].status = "done" /\ jobRows["r2"].status = "done"
    /\ Len(chunkRows["r1"]) = 1 /\ Len(chunkRows["r2"]) = 1
    /\ chunkRows["r1"][1].chunk_index = chunkRows["r2"][1].chunk_index
    /\ jobRows["r1"].created_at < jobRows["r2"].created_at

\* the first 200 characters of the payload texts of the hits
HitFingerprints(hits) ==
    {Prefix(hits[i].payload.chunk_text, FingerprintLen) : i \in 1..Len(hits)}
\* the first 200 characters of the texts of the points of d's collection
CollectionFingerprints(d) ==
    {Prefix(p.payload.chunk_text, FingerprintLen) : p \in collections[d].points}
\* a retrieve call has returned a list
RetrieveReturned == rpc = "idle" /\ rresult.outcome = "returned"

\* C18 as stated: a retrieve call whose search gave hits returns at most k
\* results, and fewer than k only if the document's collection holds fewer
\* than k points of pairwise distinct 200-character fingerprints.
C18_FewerOnlyIfCollectionSmall ==
    (RetrieveReturned /\ rdoc \in Docs /\ rhits # <<>>) =>
        /\ Len(rresult.contexts) <= rk
        /\ Len(rresult.contexts) < rk => Cardinality(CollectionFingerprints(rdoc)) < rk

\* C18, amended: a retrieve call returns at most k results, and fewer than k
\* only if the at most 2k hits its search returned (none when the search was
\* not made or failed) hold fewer than k pairwise distinct fingerprints; the
\* number of results is the smaller of k and the number of distinct
\* fingerprints among those hits.
C18_AtMostKFromHits ==
    RetrieveReturned =>
        /\ Len(rhits) <= 2 * rk
        /\ Len(rresult.contexts) = Min(rk, Cardinality(HitFingerprints(rhits)))

\* k = 2: the four hits share one fingerprint, one result is returned, and
\* the collection holds a fifth point of another fingerprint
C18_Witness ==
    /\ RetrieveReturned
    /\ rk = 2
    /\ Len(rhits) = 4
    /\ Len(rresult.contexts) = 1
    /\ Cardinality(CollectionFingerprints("d1")) = 2

\* the position among the hits of the hit a returned context was made from
HitOf(context) == Len(rhits) - context.score + 1

\* C19: the results of a retrieve call are made from hits at increasing
\* positions (an order-preserving subsequence of the hits), each from the
\* first hit holding its 200-character fingerprint, so no two results come
\* from hits that agree on their first 200 characters.
C19_FirstOfEachFingerprint ==
    RetrieveReturned =>
        LET contexts == rresult.contexts
            fp(i) == Prefix(rhits[i].payload.chunk_text, FingerprintLen)
        IN  \A j \in 1..Len(contexts) :
                /\ HitOf(contexts[j]) \in 1..Len(rhits)
                /\ contexts[j].payload = rhits[HitOf(contexts[j])].payload
                /\ j > 1 => HitOf(contexts[j - 1]) < HitOf(contexts[j])
                /\ \A i \in 1..Len(rhits) :
                        fp(i) = fp(HitOf(contexts[j])) => i >= HitOf(contexts[j])
                /\ \A l \in 1..Len(contexts) :
                        l # j => fp(HitOf(contexts[l])) # fp(HitOf(contexts[j]))

\* two hits that differ only after their first 200 characters, then a short
\* one: the first and the third are returned
C19_Witness ==
    /\ RetrieveReturned
    /\ Len(rhits) >= 3
    /\ rhits[1].payload.chunk_text = LongText("x")
    /\ rhits[2].payload.chunk_text = LongText("y")
    /\ rhits[3].payload.chunk_text = <<"b">>
    /\ Len(rresult.contexts) = 2
    /\ HitOf(rresult.contexts[2]) = 3

\* C20: a retrieve call without a document id (None or the empty string)
\* makes no collection probe, no collection creation and no search: the call
\* is over in one step that leaves the vector service and the record of the
\* calls made to it unchanged, and the list it returns is empty (it returns
\* no list if embedding the query raises).
C20_NoDocumentNoVectorCall ==
    /\ [](rdoc \in NoDocumentIds =>
            /\ rpc = "idle"
            /\ rhits = <<>>
            /\ rresult.contexts = <<>>)
    /\ [][(rleft' # rleft /\ rdoc' \in NoDocumentIds) =>
            /\ rresult' \in {Returned(<<>>), Raised}
            /\ ensureLog' = ensureLog
            /\ ensureState' = ensureState
            /\ collections' = collections]_vars

\* retrieve called with the empty string for a document whose collection
\* holds points
C20_Witness ==
    /\ rdoc = ""
    /\ rleft < MaxRetrieves
    /\ rresult = Returned(<<>>)
    /\ collections["d1"].points # {}

\* C30: a run calls upsert at most once; the call is made only after the
\* run's collection ensure succeeded, carries all staged points (at least one)
\* in one batch and targets the collection "doc-" + document_id; every point
\* of the batch has the id of a Chunk row written by the run, that Chunk's
\* index as payload chunk_index and the run's document as payload document_id.
C30_OneBatchOfChunkPoints ==
    \A r \in Runs :
        /\ Len(upsertCalls[r]) <= 1
        /\ upsertCalls[r] # <<>> =>
            LET call == upsertCalls[r][1]
            IN  /\ ensureState[r] = "ok"
                /\ call.points # <<>>
                /\ call.points = to_upsert[r]
                /\ call.collection_name = <<"doc-", document_id[r]>>
                /\ \A p \in 1..Len(call.points) :
                    /\ call.points[p].payload.document_id = document_id[r]
                    /\ \E c \in 1..Len(chunkRows[r]) :
                        /\ chunkRows[r][c].id = call.points[p].id
                        /\ chunkRows[r][c].chunk_index =
                                call.points[p].payload.chunk_index

\* three chunks, the first not embedded: one stored batch of the two others
C30_Witness ==
    /\ Len(chunkRows["r1"]) = 3
    /\ encodeFailed["r1"] = {0}
    /\ Len(upsertCalls["r1"]) = 1
    /\ upsertCalls["r1"][1].reply = "ok"
    /\ Len(upsertCalls["r1"][1].points) = 2

\* C23: chunk_text terminates for every text, size > 0 and overlap >= 0:
\* every iteration of its loop moves `start` forward, so the loop makes at
\* most len(text) iterations (an iteration that does not move `start` forward
\* repeats for ever).
C23_ChunkTextTerminates == Len(ck.chunks) <= Len(ck.text)

\* the windows of the chunks that were returned (their chunk is not empty)
KeptWindows == {i \in 1..Len(ck.windows) : ck.chunks[i] # <<>>}
\* offset o of the text lies in one of the windows W
CoveredBy(o, W) == \E i \in W : ck.windows[i][1] <= o /\ o < ck.windows[i][2]
\* a call with a non-empty text and 0 <= overlap < size has returned
ChunkedWell == ck.pc = "returned" /\ ck.text # <<>> /\ ck.overlap < ck.chunk_size

\* C24 as stated: for a non-empty text and 0 <= overlap < size, the windows
\* behind the returned chunks cover every offset of the text, and the window
\* of the last returned chunk ends at or after len(text).
C24_ReturnedWindowsCoverText ==
    ChunkedWell =>
        /\ \A o \in 0..Len(ck.text) - 1 : CoveredBy(o, KeptWindows)
        /\ \E i \in KeptWindows :
            /\ \A j \in KeptWindows : j <= i
            /\ ck.windows[i][2] >= Len(ck.text)

\* C24, amended: for a non-empty text and 0 <= overlap < size, the windows
\* the loop takes cover every offset of the text and the last of them ends at
\* or after len(text); the windows behind the returned chunks cover every
\* offset that holds a non-whitespace character (a window of whitespace only
\* yields no chunk).
C24_WindowsCoverText ==
    ChunkedWell =>
        /\ \A o \in 0..Len(ck.text) - 1 :
            /\ CoveredBy(o, 1..Len(ck.windows))
            /\ ck.text[o + 1] \notin Whitespace => CoveredBy(o, KeptWindows)
        /\ ck.windows[Len(ck.windows)][2] >= Len(ck.text)

\* "a  " with size 2 and overlap 1: the windows over the blanks are taken
\* but yield no chunk
C24_Witness ==
    /\ ChunkedWell
    /\ ck.text = <<"a", " ", " ">>
    /\ ck.chunk_size = 2 /\ ck.overlap = 1
    /\ Len(ck.windows) = 3
    /\ ck.result = <<<<"a">>>>

\* the reference result: the windows at starts 0, step, 2 step, ... below
\* len(text), each trimmed, the non-empty ones in order
ReferenceChunks(text, size, overlap) ==
    LET step == size - overlap
        n    == Cardinality({k \in 0..Len(text) : k * step < Len(text)})
        trimmed == [k \in 1..n |->
                        Strip(SubSeq(text, (k - 1) * step + 1,
                                     Min((k - 1) * step + size, Len(text))))]
    IN  SelectSeq(trimmed, LAMBDA c : c # <<>>)

\* C25: for 0 <= overlap < size the list chunk_text returns is the reference
\* result (and the list the pipeline's chunker computes); every returned chunk
\* is non-empty and at most size long, and the 5000-character text with size
\* 2000 and overlap 200 yields exactly 3 chunks.
C25_EqualsReference ==
    (ck.pc = "returned" /\ ck.overlap < ck.chunk_size) =>
        /\ ck.result = ReferenceChunks(ck.text, ck.chunk_size, ck.overlap)
        /\ ck.result = chunk_text(ck.text, ck.chunk_size, ck.overlap)
        /\ \A i \in 1..Len(ck.result) :
            ck.result[i] # <<>> /\ Len(ck.result[i]) <= ck.chunk_size
        /\ ck.text = ScenarioText => Len(ck.result) = 3

\* the scenario text chunked into three
C25_Witness ==
    /\ ck.pc = "returned"
    /\ ck.text = ScenarioText
    /\ ck.chunk_size = 2000 /\ ck.overlap = 200
    /\ Len(ck.result) = 3
    /\ Len(ck.result[3]) = 1400

\* the rows of the Job, Chunk and Embedding tables that belong to document d
RowsOf(d) ==
    {r \in Runs : document_id[r] = d
                    /\ (jobRows[r] # NoRow \/ chunkRows[r] # <<>> \/ embRows[r] # <<>>)}

\* C26: a delete of an existing document deletes its Document row and with it
\* its Chunk, Embedding and Job rows, whichever of the collection deletion,
\* the point deletion and the blob deletion failed; points are deleted by
\* Chunk id only after the deletion of the whole collection failed; a delete
\* of an unknown document id reports not-found and makes no vector or blob
\* deletion call.
C26_DeleteRemovesRows ==
    \A n \in 1..Len(deleteLog) :
        LET e == deleteLog[n]
        IN  /\ e.found =>
                /\ e.outcome = "deleted"
                /\ e.document_id \notin documents
                /\ RowsOf(e.document_id) = {}
            /\ ~e.found => e.outcome = "not_found" /\ e.calls = <<>> /\ e.blob = None
            /\ \A i \in 1..Len(e.calls) :
                e.calls[i].op = "delete" =>
                    /\ i > 1
                    /\ e.calls[1].op = "delete_collection"
                    /\ e.calls[1].reply # "ok"

\* the collection deletion, the point deletion, the legacy deletion and the
\* blob deletion all failed and the rows are gone, and a second delete found
\* nothing
C26_Witness ==
    /\ Len(deleteLog) = 2
    /\ deleteLog[1].outcome = "deleted"
    /\ Len(deleteLog[1].calls) = 3
    /\ deleteLog[1].calls[3].reply = "unavailable"
    /\ deleteLog[1].calls[2].points # {}
    /\ deleteLog[1].blob = "failed"
    /\ deleteLog[2].outcome = "not_found"
    /\ deleteLog[2].document_id = "d1"

\* C27: after a document with a vector collection and Chunk rows was
\* deleted, its relational rows are gone and every later retrieve for its id
\* returns the empty list, whether the deletion of the collection succeeded
\* or failed.
C27_DeletedDocumentRetrievesNothing ==
    \A d \in Docs \ documents :
        /\ RowsOf(d) = {}
        /\ (RetrieveReturned /\ rdoc = d) => rresult.contexts = <<>>

\* a step of retrieve in front of the vector service does not raise, and one
\* that ends the call with the ensure loop failed or with no hits returns []
AfterVectorCall ==
    rpc \in {"probe", "create", "search"} =>
        /\ rresult'.outcome # "raised"
        /\ (rpc' = "idle" /\ (ensureState'[Retriever] = "failed" \/ rhits' = <<>>)) =>
                (rresult'.outcome = "returned" /\ rresult'.contexts = <<>>)

\* C21: a failure of the vector service during retrieve (the probe and every
\* create attempt failing, or the search failing) gives the empty list: once
\* retrieve has turned to the vector service it never raises, and a call
\* that ends with the ensure loop failed or with no hits returns [].
C21_VectorFailureGivesEmptyList == [][AfterVectorCall]_vars

\* the probe and the create failed in each of the attempts, in front of a
\* collection that holds points, and retrieve returned []
C21_Witness ==
    /\ rpc = "idle"
    /\ rdoc = "d1"
    /\ collections["d1"].points # {}
    /\ ensureState[Retriever] = "failed"
    /\ Len(ensureLog[Retriever]) = 2 * max_retries
    /\ rresult.outcome = "returned"
    /\ rresult.contexts = <<>>

\* C22: the text of each returned context is the payload's text when that is
\* at most 1000 characters long, else its first 1000 characters followed by
\* "..."; the fingerprints, taken from the untruncated payload texts, differ
\* from context to context.
C22_TruncatedAtThousand ==
    RetrieveReturned =>
        \A i \in 1..Len(rresult.contexts) :
            LET c == rresult.contexts[i]
                text == c.payload.chunk_text
            IN  /\ Len(text) <= 1000 => c.text = text
                /\ Len(text) > 1000 =>
                    c.text = SubSeq(text, 1, 1000) \o <<".", ".", ".">>
                /\ \A j \in 1..Len(rresult.contexts) :
                    j # i => SubSeq(text, 1, Min(200, Len(text)))
                                # SubSeq(rresult.contexts[j].payload.chunk_text, 1,
                                         Min(200, Len(rresult.contexts[j].payload.chunk_text)))

\* a text of 1000 characters returned whole next to one of 1001 characters
\* returned cut
C22_Witness ==
    /\ RetrieveReturned
    /\ Len(rresult.contexts) = 2
    /\ \E i, j \in 1..2 :
        /\ Len(rresult.contexts[i].payload.chunk_text) = 1000
        /\ Len(rresult.contexts[i].text) = 1000
        /\ Len(rresult.contexts[j].payload.chunk_text) = 1001
        /\ Len(rresult.contexts[j].text) = 1003

\* C29: the ask handler calls the completion service only after retrieval
\* has returned, and only with a non-empty list of contexts; when retrieval
\* returned no context the handler answers with the no-relevant-context
\* answer and no contexts, makes no completion call and raises nothing.
C29_CompletionOnlyWithContext ==
    \A n \in 1..Len(askLog) :
        LET e == askLog[n]
        IN  /\ e.completion # <<>> =>
                /\ e.retrieved.outcome = "returned"
                /\ e.retrieved.contexts # <<>>
                /\ \A i \in 1..Len(e.completion) : e.completion[i].contexts # <<>>
            /\ (e.retrieved.outcome = "returned" /\ e.retrieved.contexts = <<>>) =>
                /\ e.completion = <<>>
                /\ e.status = "200"
                /\ e.answer = "No relevant context. Upload documents first."
                /\ e.contexts = <<>>

\* the vector service failed while the collection held points, and the
\* handler gave the no-relevant-context answer
C29_Witness ==
    /\ Len(askLog) = 1
    /\ askLog[1].document_id = "d1"
    /\ askLog[1].status = "200"
    /\ askLog[1].completion = <<>>
    /\ askLog[1].answer = NoContextAnswer
    /\ collections["d1"].points # {}
    /\ ensureState[Retriever] = "failed"

\* a step changes the Job row and the Chunk rows of a run only if it is a step
\* of that run, and the rows a run has written carry the run's document id
OwnRowsOnly ==
    \A r \in Runs :
        /\ (jobRows'[r] # jobRows[r] \/ chunkRows'[r] # chunkRows[r] \/ embRows'[r] # embRows[r])
                => pc'[r] # pc[r]
        /\ jobRows'[r] # NoRow => jobRows'[r].document_id = document_id[r]
        /\ \A i \in 1..Len(chunkRows'[r]) : chunkRows'[r][i].document_id = document_id[r]

\* C28: under every interleaving of ingestion runs, of one document or of
\* several, with status queries and retrievals, a Job row is written only by
\* the run that created it (no other run, status query or retrieve changes
\* its status, progress or error), and a run writes no Job or Chunk row of
\* another document.
C28_JobWrittenByOwnRunOnly == [][OwnRowsOnly]_vars

\* two runs of one document have each written their own Job row, with
\* different outcomes, and a status query was answered while the second was
\* still processing
C28_Witness ==
    /\ document_id["r1"] = document_id["r2"]
    /\ jobRows["r1"].status = "done"
    /\ jobRows["r2"].status = "failed"
    /\ chunkRows["r1"] # <<>>
    /\ statusReply.handler # None
    /\ statusReply.statuses["d1"] = "processing"

\* C31: whenever the persisted status of a Job is done, every step before it
\* has finished: the Chunk row and the Embedding row of each of the run's N
\* chunks are persisted, the vector indexing, if a point was staged, has been
\* made or given up, and the archive upload has been attempted; so no status
\* poll sees done while a chunk of the run is unwritten.
C31_DoneAfterEveryStep ==
    \A r \in Runs :
        jobRows[r].status = "done" =>
            /\ Len(chunkRows[r]) = Len(chunks[r])
            /\ Len(embRows[r]) = Len(chunks[r])
            /\ \A i \in 1..Len(chunks[r]) :
                /\ chunkRows[r][i].text = chunks[r][i]
                /\ embRows[r][i] = chunkRows[r][i].id
            /\ to_upsert[r] # <<>> => (upsertCalls[r] # <<>> \/ "index" \in failures[r])
            /\ archiveCalls[r] = 1
            /\ pc[r] \notin {"progress", "chunk_commit", "chunk_refresh", "encode",
                            "emb_commit", "index", "probe", "create", "upsert",
                            "archive"}

\* done with three chunks, the upsert made and refused, the archive upload
\* failed
C31_Witness ==
    /\ jobRows["r1"].status = "done"
    /\ Len(chunkRows["r1"]) = 3
    /\ Len(upsertCalls["r1"]) = 1
    /\ upsertCalls["r1"][1].reply # "ok"
    /\ "archive" \in failures["r1"]

\* what an ensure loop did, apart from the name of the collection: the calls
\* with their arguments, and whether each returned or raised
EnsureCalls(log) ==
    [i \in 1..Len(log) |->
        <<log[i].op,
          IF log[i].op = "create_collection"
          THEN <<log[i].args.size, log[i].args.distance>> ELSE <<>>>>]
EnsureOutcomes(log) == [i \in 1..Len(log) |-> log[i].reply = "ok"]
EnsureEntered(c) == ensureState[c] \in {"running", "ok", "failed"}

\* C35: the ensure loop inlined in process_document and
\* ensure_collection_exists of retrieve are equivalent: as long as their
\* probe and create calls had the same outcomes they have made the same calls
\* with the same arguments (cosine distance, the vector size), and after the
\* same outcomes they are in the same state (running, success, or the last
\* error raised).
C35_EnsureLoopsEquivalent ==
    \A r \in Runs :
        (EnsureEntered(r) /\ EnsureEntered(Retriever)) =>
            LET a == ensureLog[r]
                b == ensureLog[Retriever]
                n == Min(Len(a), Len(b))
                same(m) == SubSeq(EnsureOutcomes(a), 1, m) = SubSeq(EnsureOutcomes(b), 1, m)
            IN  /\ \A m \in 0..n - 1 :
                    same(m) => EnsureCalls(a)[m + 1] = EnsureCalls(b)[m + 1]
                /\ (Len(a) = Len(b) /\ same(n)) => ensureState[r] = ensureState[Retriever]
                /\ \A i \in 1..Len(a) :
                    a[i].args.collection_name = <<"doc-", document_id[r]>>
                /\ rpc \in {"probe", "create", "search"} =>
                    \A i \in 1..Len(b) : b[i].args.collection_name = <<"doc-", rdoc>>

\* both loops have gone through three failed probes and three failed creates
\* and have given up
C35_Witness ==
    /\ ensureState["r1"] = "failed"
    /\ ensureState[Retriever] = "failed"
    /\ Len(ensureLog["r1"]) = 2 * max_retries
    /\ Len(ensureLog[Retriever]) = 2 * max_retries

\* C32 as stated: retrieve makes no collection for a document id that has no
\* Document row: once a document was deleted together with its collection, no
\* retrieve call makes the collection "doc-" + document_id exist.
C32_NoCollectionWithoutDocument ==
    \A n \in 1..Len(deleteLog) :
        LET e == deleteLog[n]
        IN  (/\ e.outcome = "deleted"
             /\ Len(e.calls) = 1
             /\ e.calls[1].op = "delete_collection"
             /\ e.calls[1].reply = "ok")
                => ~collections[e.document_id].exists

\* a step of retrieve leaves every collection as it is, or creates, empty, the
\* missing collection of the document id it was called with
RetrieveOnlyCreatesOwn ==
    (rpc' # rpc \/ rleft' # rleft) =>
        \A d \in Docs :
            \/ collections'[d] = collections[d]
            \/ /\ rpc = "create"
               /\ d = rdoc
               /\ ~collections[d].exists
               /\ collections'[d].exists
               /\ collections'[d].points = {}

\* C32, amended: retrieve changes the collections of the vector service in
\* one way only: called with a document id whose collection is missing, it
\* creates that collection, empty, whether or not the id has a Document row;
\* it creates no other collection, deletes none and changes no points.
C32_RetrieveOnlyCreatesOwnCollection == [][RetrieveOnlyCreatesOwn]_vars

\* the document was ingested and indexed, then deleted together with its
\* collection, and a retrieve for its id has made the collection anew
C32_Witness ==
    /\ "d1" \notin documents
    /\ upsertCalls["r1"] # <<>>
    /\ upsertCalls["r1"][1].reply = "ok"
    /\ deleteLog[1].document_id = "d1"
    /\ deleteLog[1].calls # <<>>
    /\ deleteLog[1].calls[1].reply = "ok"
    /\ rdoc = "d1"
    /\ rpc = "idle"
    /\ rresult.outcome = "returned"
    /\ collections["d1"].exists
    /\ collections["d1"].points = {}

\* C33: when delete_document ran while an ingestion run of the document was
\* in flight (and its own deletion of the collection succeeded), then once
\* the run has ended too, no collection "doc-" + document_id, no point and no
\* Chunk, Embedding or Job row of the document remains.
C33_NothingLeftAfterRace ==
    \A n \in 1..Len(deleteLog) :
        LET e == deleteLog[n]
        IN  (/\ e.outcome = "deleted"
             /\ e.inflight # {}
             /\ \A r \in e.inflight : Ended(r)
             /\ Len(e.calls) = 1
             /\ e.calls[1].reply = "ok")
                => /\ ~collections[e.document_id].exists
                   /\ collections[e.document_id].points = {}
                   /\ RowsOf(e.document_id) = {}

\* C34: once upload_file has returned or raised after writing its temporary
\* file, either the ingestion thread that removes the file has been started
\* or the file is no longer there.
C34_TempFileReleased ==
    \A r \in Runs :
        (uploadReply[r].status_code # 0 /\ pc[r] = "idle") => tmpFile[r] # "present"

============================================================================
